---------------------------- MODULE Spec2Model ----------------------------
(***************************************************************************)
(* Native Tree Finder: the GBIF search handler of server/routes.ts, its    *)
(* helpers (isLikelyTree, isInvalidCityName, geocodeCityState,             *)
(* getGBIFSpeciesDetails, processTaxaBatch) and the tree_species table of  *)
(* server/storage.ts.                                                      *)
(*                                                                         *)
(* JavaScript strings are TLA+ strings; null and undefined are the two     *)
(* reserved strings Null and Undefined, which no input contains.           *)
(***************************************************************************)
EXTENDS Integers, Sequences, FiniteSets, TLC

VARIABLES
    db,      \* rows of the tree_species table, in insertion order
    nextId,  \* number of ids the table has generated so far
    searches,\* number of requests received so far
    proc,    \* per request: the handler's position and locals
    prev,    \* <<the last search that completed>>, <<>> before the first
    arg,     \* input of the pure function under evaluation
    ret      \* <<result>> once it has been evaluated, <<>> before

vars == <<db, nextId, searches, proc, prev, arg, ret>>
handlerVars == <<db, nextId, searches, proc, prev>>
callVars == <<arg, ret>>

Null == "<null>"
Undefined == "<undefined>"

\* JavaScript truthiness of a string-or-null value
Truthy(v) == v # Null /\ v # Undefined /\ v # ""

Min(a, b) == IF a < b THEN a ELSE b

\* a || b
Or(a, b) == IF Truthy(a) THEN a ELSE b

\* A value that may be null or undefined is <<>> or <<value>> when the value
\* is an object
None == <<>>
Some(x) == <<x>>

\* every order in which the elements of seq can be listed
PermutationsOf(seq) ==
    { [i \in 1..Len(seq) |-> seq[f[i]]] : f \in Permutations(1..Len(seq)) }

---------------------------------------------------------------------------
(* String primitives                                                       *)

UpperLetters == "ABCDEFGHIJKLMNOPQRSTUVWXYZ"
LowerLetters == "abcdefghijklmnopqrstuvwxyz"
Digits == "0123456789"

CharAt(s, i) == SubSeq(s, i, i)

HasChar(set, c) == \E i \in 1..Len(set) : CharAt(set, i) = c

LowerChar(c) ==
    IF HasChar(UpperLetters, c)
    THEN CharAt(LowerLetters, CHOOSE i \in 1..Len(UpperLetters) : CharAt(UpperLetters, i) = c)
    ELSE c

RECURSIVE ToLowerCase(_)
ToLowerCase(s) ==
    IF Len(s) = 0 THEN "" ELSE LowerChar(Head(s)) \o ToLowerCase(Tail(s))

\* String.prototype.includes
Includes(s, k) ==
    \E i \in 1..(Len(s) - Len(k) + 1) : SubSeq(s, i, i + Len(k) - 1) = k

StartsWith(s, k) == Len(s) >= Len(k) /\ SubSeq(s, 1, Len(k)) = k

\* String.prototype.split(' '): the pieces between single spaces, empty
\* pieces included
RECURSIVE SplitFrom(_, _, _)
SplitFrom(s, i, cur) ==
    IF i > Len(s) THEN <<cur>>
    ELSE IF CharAt(s, i) = " " THEN <<cur>> \o SplitFrom(s, i + 1, "")
    ELSE SplitFrom(s, i + 1, cur \o CharAt(s, i))

Split(s) == SplitFrom(s, 1, "")

\* Array.prototype.slice(0, n)
Slice(seq, n) == SubSeq(seq, 1, Min(n, Len(seq)))

\* Array.prototype.join(' ')
RECURSIVE Join(_)
Join(seq) ==
    IF Len(seq) = 0 THEN ""
    ELSE IF Len(seq) = 1 THEN seq[1]
    ELSE seq[1] \o " " \o Join(Tail(seq))

---------------------------------------------------------------------------
(* Taxon classifier                                                        *)

TREE_FAMILIES ==
    { "Fagaceae", "Pinaceae", "Aceraceae", "Betulaceae",
      "Salicaceae", "Cupressaceae", "Juglandaceae",
      "Ulmaceae", "Magnoliaceae", "Platanaceae",
      "Taxaceae", "Taxodiaceae", "Araucariaceae" }

exclusionKeywords ==
    { "shrub", "bush", "herb", "vine", "grass", "fern", "moss",
      "sedge", "rush", "bramble", "weed", "flower",
      "dewberry", "raspberry", "blackberry", "strawberry", "blueberry", "cranberry",
      "huckleberry", "gooseberry", "elderberry", "currant", "rose",
      "avens", "mallow", "cinquefoil", "clover", "vetch",
      "goosefoot", "chickweed", "knotweed", "smartweed", "pigweed",
      "amaranth", "plantain", "purslane", "lambsquarters", "nettle" }

treeExceptions == { "cherry", "hackberry", "mulberry", "serviceberry", "chokeberry" }

treeKeywords ==
    { "tree", "oak", "pine", "maple", "birch", "cedar", "fir",
      "spruce", "elm", "ash", "willow", "poplar", "aspen",
      "redwood", "sequoia", "cypress", "juniper", "hemlock",
      "hickory", "walnut", "beech", "sycamore", "magnolia",
      "cottonwood", "basswood", "linden", "dogwood", "buckeye",
      "hornbeam", "hop-hornbeam", "cherry", "hackberry", "mulberry",
      "serviceberry", "chokeberry", "hawthorn", "crabapple" }

knownTreeGenera ==
    { "Quercus", "Pinus", "Acer", "Betula", "Salix", "Populus",
      "Fraxinus", "Ulmus", "Fagus", "Picea", "Abies", "Tsuga",
      "Sequoia", "Juniperus", "Carya", "Platanus", "Magnolia",
      "Cornus", "Tilia", "Liquidambar", "Nyssa", "Ostrya",
      "Carpinus", "Taxodium", "Larix", "Pseudotsuga", "Thuja",
      "Chamaecyparis", "Cedrus", "Robinia", "Gleditsia", "Juglans",
      "Aesculus", "Liriodendron", "Catalpa", "Prunus", "Celtis",
      "Morus", "Amelanchier", "Sorbus", "Malus", "Pyrus", "Crataegus" }

\* mutant of isLikelyTree: the tree exceptions are not consulted
isLikelyTreeNoException(scientificName, family, vernacularName) ==
    IF Truthy(vernacularName)
       /\ \E keyword \in exclusionKeywords : Includes(ToLowerCase(vernacularName), keyword)
    THEN FALSE
    ELSE IF Truthy(family) /\ family \in TREE_FAMILIES THEN TRUE
    ELSE IF Truthy(vernacularName)
            /\ \E keyword \in treeKeywords : Includes(ToLowerCase(vernacularName), keyword)
    THEN TRUE
    ELSE Truthy(scientificName) /\ Split(scientificName)[1] \in knownTreeGenera

isLikelyTree(scientificName, family, vernacularName) ==
    LET lowerName == ToLowerCase(vernacularName)
        hasTreeException ==
            \E exception \in treeExceptions : Includes(lowerName, exception)
        genus == Split(scientificName)[1]
    IN  IF Truthy(vernacularName)
           /\ ~hasTreeException
           /\ \E keyword \in exclusionKeywords : Includes(lowerName, keyword)
        THEN FALSE
        ELSE IF Truthy(family) /\ family \in TREE_FAMILIES
        THEN TRUE
        ELSE IF Truthy(vernacularName)
                /\ \E keyword \in treeKeywords : Includes(lowerName, keyword)
        THEN TRUE
        ELSE IF Truthy(scientificName) /\ genus \in knownTreeGenera
        THEN TRUE
        ELSE FALSE

---------------------------------------------------------------------------
(* JavaScript Map: the keys in insertion order and the value of each key    *)

EmptyMap == [keys |-> <<>>, val |-> <<>>]

MapHas(m, k) == k \in DOMAIN m.val

MapGet(m, k) == m.val[k]

\* Map.prototype.get(k) || 0
MapGetOr0(m, k) == IF MapHas(m, k) THEN m.val[k] ELSE 0

MapSet(m, k, v) ==
    [keys |-> IF MapHas(m, k) THEN m.keys ELSE Append(m.keys, k),
     val  |-> [x \in (DOMAIN m.val) \cup {k} |-> IF x = k THEN v ELSE m.val[x]]]

MapSize(m) == Len(m.keys)

\* Array.from(m.entries())
MapEntries(m) == [i \in 1..Len(m.keys) |-> <<m.keys[i], m.val[m.keys[i]]>>]

---------------------------------------------------------------------------
(* Occurrence aggregator: the loop over data.results                       *)

\* x || null
OrNull(x) == IF Truthy(x) THEN x ELSE Null

\* mutant of Accumulate: the establishment bucket is not incremented
AccumulateCountOnly(existing, establishmentMeans) ==
    [existing EXCEPT !.count = @ + 1]

\* the branch for a species key the map already has
Accumulate(existing, establishmentMeans) ==
    LET currentCount == MapGetOr0(existing.establishmentCounts, establishmentMeans)
    IN  [existing EXCEPT
            !.count = @ + 1,
            !.establishmentCounts = MapSet(@, establishmentMeans, currentCount + 1)]

\* one iteration of the loop; a missing speciesKey is the falsy key 0
AggregateStep(uniqueTreeSpecies, occurrence) ==
    IF occurrence.speciesKey = 0 \/ ~Truthy(occurrence.scientificName)
    THEN uniqueTreeSpecies
    ELSE
      LET scientificName == occurrence.scientificName
          family == OrNull(occurrence.family)
          vernacularName == OrNull(occurrence.vernacularName)
          establishmentMeans ==
              IF Truthy(occurrence.establishmentMeans)
              THEN occurrence.establishmentMeans ELSE "UNKNOWN"
      IN  IF ~isLikelyTree(scientificName, family, vernacularName)
          THEN uniqueTreeSpecies
          ELSE IF MapHas(uniqueTreeSpecies, occurrence.speciesKey)
          THEN MapSet(uniqueTreeSpecies, occurrence.speciesKey,
                      Accumulate(MapGet(uniqueTreeSpecies, occurrence.speciesKey),
                                 establishmentMeans))
          ELSE MapSet(uniqueTreeSpecies, occurrence.speciesKey,
                      [scientificName |-> scientificName,
                       family |-> family,
                       vernacularName |-> vernacularName,
                       count |-> 1,
                       establishmentCounts |-> MapSet(EmptyMap, establishmentMeans, 1)])

RECURSIVE AggregateFrom(_, _, _)
AggregateFrom(uniqueTreeSpecies, results, i) ==
    IF i > Len(results) THEN uniqueTreeSpecies
    ELSE AggregateFrom(AggregateStep(uniqueTreeSpecies, results[i]), results, i + 1)

Aggregate(results) == AggregateFrom(EmptyMap, results, 1)

---------------------------------------------------------------------------
(* Native-status filter                                                    *)

INVASIVE_BLOCKLIST ==
    { "Prunus laurocerasus", "Prunus lusitanica", "Ailanthus altissima",
      "Paulownia tomentosa", "Melia azedarach", "Elaeagnus angustifolia",
      "Ligustrum lucidum", "Albizia julibrissin", "Pyrus calleryana",
      "Cinnamomum camphora", "Triadica sebifera" }

\* mutant of canonicalName: the whole scientific name is looked up
canonicalNameWhole(scientificName) == scientificName

\* scientificName.split(' ').slice(0, 2).join(' ')
canonicalName(scientificName) == Join(Slice(Split(scientificName), 2))

\* A quotient of two counts and a decimal literal are exact fractions.  For
\* counts up to the occurrence query's limit of 300 the comparisons of the
\* IEEE doubles have the same outcome.
Fraction(n, d) == [num |-> n, den |-> d]
GreaterThan(x, y) == x.num * y.den > y.num * x.den
LessThan(x, y) == x.num * y.den < y.num * x.den
NotLessThan(x, y) == x.num * y.den >= y.num * x.den

\* mutant of shouldInclude: the native majority is not strict
shouldIncludeNonStrict(species) ==
    LET totalOccurrences == species.count
        nativeCount == MapGetOr0(species.establishmentCounts, "NATIVE")
        introducedCount == MapGetOr0(species.establishmentCounts, "INTRODUCED")
                           + MapGetOr0(species.establishmentCounts, "INVASIVE")
                           + MapGetOr0(species.establishmentCounts, "NATURALISED")
    IN  \/ NotLessThan(Fraction(nativeCount, totalOccurrences), Fraction(5, 10))
        \/ LessThan(Fraction(introducedCount, totalOccurrences), Fraction(2, 10))

\* mutant of shouldInclude: only the introduced share decides
shouldIncludeIntroducedOnly(species) ==
    LET totalOccurrences == species.count
        introducedCount == MapGetOr0(species.establishmentCounts, "INTRODUCED")
                           + MapGetOr0(species.establishmentCounts, "INVASIVE")
                           + MapGetOr0(species.establishmentCounts, "NATURALISED")
    IN  LessThan(Fraction(introducedCount, totalOccurrences), Fraction(2, 10))

shouldInclude(species) ==
    LET totalOccurrences == species.count
        nativeCount == MapGetOr0(species.establishmentCounts, "NATIVE")
        introducedCount == MapGetOr0(species.establishmentCounts, "INTRODUCED")
                           + MapGetOr0(species.establishmentCounts, "INVASIVE")
                           + MapGetOr0(species.establishmentCounts, "NATURALISED")
        nativePercent == Fraction(nativeCount, totalOccurrences)
        introducedPercent == Fraction(introducedCount, totalOccurrences)
    IN  GreaterThan(nativePercent, Fraction(5, 10))
        \/ LessThan(introducedPercent, Fraction(2, 10))

\* one iteration of the loop over uniqueTreeSpecies.entries()
NativeFilterStep(nativeTreeSpecies, speciesKey, species) ==
    IF canonicalName(species.scientificName) \in INVASIVE_BLOCKLIST
    THEN nativeTreeSpecies
    ELSE IF shouldInclude(species)
    THEN MapSet(nativeTreeSpecies, speciesKey,
                [scientificName |-> species.scientificName,
                 family |-> species.family,
                 vernacularName |-> species.vernacularName,
                 count |-> species.count])
    ELSE nativeTreeSpecies

RECURSIVE NativeFilterFrom(_, _, _)
NativeFilterFrom(nativeTreeSpecies, entries, i) ==
    IF i > Len(entries) THEN nativeTreeSpecies
    ELSE NativeFilterFrom(
             NativeFilterStep(nativeTreeSpecies, entries[i][1], entries[i][2]),
             entries, i + 1)

NativeFilter(uniqueTreeSpecies) ==
    NativeFilterFrom(EmptyMap, MapEntries(uniqueTreeSpecies), 1)

---------------------------------------------------------------------------
(* Ranking and selection                                                   *)

Limit == 15

\* mutant of Compare: ascending by count
CompareAscending(a, b) == a[2].count - b[2].count

\* the comparator (a, b) => b[1].count - a[1].count
Compare(a, b) == b[2].count - a[2].count

\* Array.prototype.sort is stable: an entry goes behind every entry that
\* does not have to come after it
RECURSIVE InsertSorted(_, _)
InsertSorted(sorted, e) ==
    IF Len(sorted) = 0 THEN <<e>>
    ELSE IF Compare(sorted[Len(sorted)], e) <= 0
    THEN Append(sorted, e)
    ELSE Append(InsertSorted(SubSeq(sorted, 1, Len(sorted) - 1), e), sorted[Len(sorted)])

RECURSIVE SortFrom(_, _, _)
SortFrom(sorted, entries, i) ==
    IF i > Len(entries) THEN sorted
    ELSE SortFrom(InsertSorted(sorted, entries[i]), entries, i + 1)

Sort(entries) == SortFrom(<<>>, entries, 1)

\* mutant of SortedSpecies: the sorted entries are not cut to the limit
SortedSpeciesNoLimit(nativeTreeSpecies) ==
    LET top == Sort(MapEntries(nativeTreeSpecies))
    IN  [i \in 1..Len(top) |-> top[i][1]]

SortedSpecies(nativeTreeSpecies) ==
    LET top == Slice(Sort(MapEntries(nativeTreeSpecies)), Limit)
    IN  [i \in 1..Len(top) |-> top[i][1]]

---------------------------------------------------------------------------
(* Request validation                                                      *)

\* searchLocationSchema: city of at least one character, state of exactly two
ParseOk(body) == Len(body.city) >= 1 /\ Len(body.state) >= 2 /\ Len(body.state) <= 2

invalidPrefixes ==
    { "nonexistent", "invalid", "test", "fake", "middleofnowhere", "nowhere" }

Letters == UpperLetters \o LowerLetters
WordChars == Letters \o Digits \o "_"
Whitespace == " \t\n\r"

isInvalidCityName(city) ==
    \/ \E prefix \in invalidPrefixes : StartsWith(ToLowerCase(city), prefix)
    \/ \E i \in 1..(Len(city) - 2) :
          \A j \in i..(i + 2) : HasChar(Digits, CharAt(city, j))
    \/ Len(city) > 0 /\ ~HasChar(Letters, CharAt(city, 1))
    \/ \E i \in 1..Len(city) :
          ~HasChar(WordChars \o Whitespace \o "-'.", CharAt(city, i))

---------------------------------------------------------------------------
(* Geocoder                                                                *)

DigitValue(c) == (CHOOSE i \in 1..Len(Digits) : CharAt(Digits, i) = c) - 1

RECURSIVE ParseDigits(_, _)
ParseDigits(s, acc) ==
    IF Len(s) = 0 \/ ~HasChar(Digits, Head(s)) THEN acc
    ELSE ParseDigits(Tail(s), acc * 10 + DigitValue(Head(s)))

\* parseFloat on a whole number of degrees
ParseFloat(s) ==
    IF Len(s) > 0 /\ Head(s) = "-" THEN 0 - ParseDigits(Tail(s), 0)
    ELSE ParseDigits(s, 0)

\* What the geocoder may answer: a transport failure, a non-success status,
\* no match, one match
GeocoderResponses ==
    { [thrown |-> TRUE,  ok |-> FALSE, data |-> <<>>],
      [thrown |-> FALSE, ok |-> FALSE, data |-> <<>>],
      [thrown |-> FALSE, ok |-> TRUE,  data |-> <<>>],
      [thrown |-> FALSE, ok |-> TRUE,  data |-> <<[lat |-> "30", lon |-> "-97"]>>] }

geocodeCityState(response) ==
    IF response.thrown THEN None
    ELSE IF ~response.ok THEN None
    ELSE IF Len(response.data) > 0
    THEN Some([lat |-> ParseFloat(response.data[1].lat),
               lon |-> ParseFloat(response.data[1].lon)])
    ELSE None

---------------------------------------------------------------------------
(* Occurrence source                                                       *)

stateNames ==
    ("AL" :> "Alabama") @@ ("AK" :> "Alaska") @@ ("AZ" :> "Arizona") @@ ("AR" :> "Arkansas")
    @@ ("CA" :> "California") @@ ("CO" :> "Colorado") @@ ("CT" :> "Connecticut")
    @@ ("DE" :> "Delaware") @@ ("FL" :> "Florida") @@ ("GA" :> "Georgia")
    @@ ("HI" :> "Hawaii") @@ ("ID" :> "Idaho") @@ ("IL" :> "Illinois") @@ ("IN" :> "Indiana")
    @@ ("IA" :> "Iowa") @@ ("KS" :> "Kansas") @@ ("KY" :> "Kentucky") @@ ("LA" :> "Louisiana")
    @@ ("ME" :> "Maine") @@ ("MD" :> "Maryland") @@ ("MA" :> "Massachusetts")
    @@ ("MI" :> "Michigan") @@ ("MN" :> "Minnesota") @@ ("MS" :> "Mississippi")
    @@ ("MO" :> "Missouri") @@ ("MT" :> "Montana") @@ ("NE" :> "Nebraska") @@ ("NV" :> "Nevada")
    @@ ("NH" :> "New Hampshire") @@ ("NJ" :> "New Jersey") @@ ("NM" :> "New Mexico")
    @@ ("NY" :> "New York") @@ ("NC" :> "North Carolina") @@ ("ND" :> "North Dakota")
    @@ ("OH" :> "Ohio") @@ ("OK" :> "Oklahoma") @@ ("OR" :> "Oregon") @@ ("PA" :> "Pennsylvania")
    @@ ("RI" :> "Rhode Island") @@ ("SC" :> "South Carolina") @@ ("SD" :> "South Dakota")
    @@ ("TN" :> "Tennessee") @@ ("TX" :> "Texas") @@ ("UT" :> "Utah") @@ ("VT" :> "Vermont")
    @@ ("VA" :> "Virginia") @@ ("WA" :> "Washington") @@ ("WV" :> "West Virginia")
    @@ ("WI" :> "Wisconsin") @@ ("WY" :> "Wyoming")

\* the parameters of the occurrence search
OccurrenceQuery(state) ==
    LET stateName == IF state \in DOMAIN stateNames THEN stateNames[state] ELSE state
    IN  [country |-> "US", stateProvince |-> stateName, kingdomKey |-> "6",
         hasCoordinate |-> "true", limit |-> "300"]

Occurrence(key, sci, fam, vern, means) ==
    [speciesKey |-> key, scientificName |-> sci, family |-> fam,
     vernacularName |-> vern, establishmentMeans |-> means]

\* Four native trees (species keys 1, 6, 3, 5 by rank), a bramble, a
\* blocklisted invasive and an introduced mulberry
ResultsMixed ==
    << Occurrence(6, "Acer rubrum", "Sapindaceae", "Red Maple", "NATIVE"),
       Occurrence(1, "Quercus alba", "Fagaceae", "White Oak", "NATIVE"),
       Occurrence(3, "Prunus serotina", "Rosaceae", "Black Cherry", Undefined),
       Occurrence(2, "Rubus armeniacus", "Rosaceae", "Himalayan Blackberry", "INTRODUCED"),
       Occurrence(1, "Quercus alba", "Fagaceae", "White Oak", Undefined),
       Occurrence(7, "Ailanthus altissima (Mill.) Swingle", "Simaroubaceae", "Tree of Heaven", Undefined),
       Occurrence(5, "Pinus taeda", "Pinaceae", "Loblolly Pine", "NATIVE"),
       Occurrence(4, "Morus alba", "Moraceae", "White Mulberry", "INTRODUCED") >>

\* Three native trees (species keys 8, 3, 9 by rank)
ResultsSmall ==
    << Occurrence(3, "Prunus serotina", "Rosaceae", "Black Cherry", "NATIVE"),
       Occurrence(8, "Prunus virginiana", "Rosaceae", "Chokecherry", Undefined),
       Occurrence(9, "Ulmus americana", "Ulmaceae", "American Elm", Undefined),
       Occurrence(8, "Prunus virginiana", "Rosaceae", "Chokecherry", "NATIVE") >>

\* Only taxa that the classifier or the native filter drops
ResultsNoNative ==
    << Occurrence(2, "Rubus armeniacus", "Rosaceae", "Himalayan Blackberry", Undefined),
       Occurrence(4, "Morus alba", "Moraceae", "White Mulberry", "INTRODUCED") >>

\* Only occurrences that the classifier drops
ResultsNoTree ==
    << Occurrence(2, "Rubus armeniacus", "Rosaceae", "Himalayan Blackberry", "NATIVE"),
       Occurrence(2, "Rubus armeniacus", "Rosaceae", "Himalayan Blackberry", Undefined) >>

\* What the occurrence source may answer: a transport failure, a non-success
\* status, or a page of results
OccurrenceResponses ==
    { [thrown |-> TRUE,  ok |-> FALSE, results |-> <<>>],
      [thrown |-> FALSE, ok |-> FALSE, results |-> <<>>],
      [thrown |-> FALSE, ok |-> TRUE,  results |-> <<>>],
      [thrown |-> FALSE, ok |-> TRUE,  results |-> ResultsNoTree],
      [thrown |-> FALSE, ok |-> TRUE,  results |-> ResultsNoNative],
      [thrown |-> FALSE, ok |-> TRUE,  results |-> ResultsSmall],
      [thrown |-> FALSE, ok |-> TRUE,  results |-> ResultsMixed] }

---------------------------------------------------------------------------
(* Detail source                                                           *)

RECURSIVE Repeat(_, _)
Repeat(s, n) == IF n = 0 THEN "" ELSE s \o Repeat(s, n - 1)

LongDescription == Repeat("Quercus alba is a long-lived oak of eastern forests. ", 7)

SpeciesData(canonical, scientific, family, genus, descriptions) ==
    [canonicalName |-> canonical, scientificName |-> scientific, family |-> family,
     genus |-> genus, descriptions |-> descriptions]

\* The three answers of the detail source for a species key: /species/{key},
\* /species/{key}/vernacularNames and /species/{key}/media
DetailAnswer(speciesKey) ==
    CASE speciesKey = 1 ->
           [species |-> [ok |-> TRUE, data |->
                SpeciesData("Quercus alba", "Quercus alba L.", "Fagaceae", "Quercus",
                            <<[description |-> LongDescription, value |-> Undefined]>>)],
            vernacular |-> [ok |-> TRUE, results |->
                <<[language |-> "fra", vernacularName |-> "Chene blanc"],
                  [language |-> "eng", vernacularName |-> "White Oak"]>>],
            media |-> [ok |-> TRUE, results |->
                <<[type |-> "StillImage", identifier |-> "https://img.example/quercus.jpg"]>>]]
      [] speciesKey = 3 ->
           [species |-> [ok |-> TRUE, data |->
                SpeciesData("Prunus serotina", "Prunus serotina Ehrh.", "Rosaceae", "Prunus",
                            <<[description |-> Undefined,
                               value |-> "Deciduous tree of eastern woodlands."]>>)],
            vernacular |-> [ok |-> FALSE, results |-> <<>>],
            media |-> [ok |-> TRUE, results |->
                <<[type |-> "Sound", identifier |-> "https://img.example/prunus.mp3"]>>]]
      [] speciesKey = 5 ->
           [species |-> [ok |-> TRUE, data |->
                SpeciesData(Undefined, "Pinus taeda L.", "Pinaceae", "Pinus", <<>>)],
            vernacular |-> [ok |-> TRUE, results |->
                <<[language |-> "eng", vernacularName |-> "Loblolly Pine"]>>],
            media |-> [ok |-> FALSE, results |-> <<>>]]
      [] speciesKey = 6 ->
           [species |-> [ok |-> TRUE, data |->
                SpeciesData(Undefined, Undefined, "Sapindaceae", "Acer", <<>>)],
            vernacular |-> [ok |-> TRUE, results |->
                <<[language |-> "eng", vernacularName |-> "Red Maple"]>>],
            media |-> [ok |-> TRUE, results |-> <<>>]]
      [] speciesKey = 8 ->
           [species |-> [ok |-> TRUE, data |->
                SpeciesData("Prunus virginiana", "Prunus virginiana L.", "Rosaceae", "Prunus",
                            <<>>)],
            vernacular |-> [ok |-> TRUE, results |->
                <<[language |-> "eng", vernacularName |-> "Bitter-berry Bush"]>>],
            media |-> [ok |-> TRUE, results |-> <<>>]]
      [] speciesKey >= 10 ->
           [species |-> [ok |-> TRUE, data |->
                SpeciesData("Quercus rubra", "Quercus rubra L.", "Fagaceae", "Quercus",
                            <<>>)],
            vernacular |-> [ok |-> TRUE, results |->
                <<[language |-> "eng", vernacularName |-> "Red Oak"]>>],
            media |-> [ok |-> TRUE, results |-> <<>>]]
      [] OTHER ->
           [species |-> [ok |-> FALSE, data |->
                SpeciesData(Undefined, Undefined, Undefined, Undefined, <<>>)],
            vernacular |-> [ok |-> FALSE, results |-> <<>>],
            media |-> [ok |-> FALSE, results |-> <<>>]]

\* the same answers, but the vernacular names request has a non-success status
VernacularUnavailable(answer) ==
    [answer EXCEPT !.vernacular = [ok |-> FALSE, results |-> <<>>]]

\* A lookup gets the detail source's answers, or its vernacular names request
\* is refused, or one of its requests fails in transport
DetailResponses(speciesKey) ==
    { [thrown |-> t, answer |-> DetailAnswer(speciesKey)] : t \in BOOLEAN }
    \cup { [thrown |-> FALSE, answer |-> VernacularUnavailable(DetailAnswer(speciesKey))] }

\* Array.prototype.find, given the positions that pass the test: <<the first
\* of them>>, or <<>> for undefined
Find(seq, hits) ==
    IF hits = {} THEN None
    ELSE Some(seq[CHOOSE i \in hits : \A j \in hits : i <= j])

\* <<details>>, or <<>> for null
getGBIFSpeciesDetails(speciesKey, response) ==
    IF response.thrown THEN None
    ELSE IF ~response.answer.species.ok THEN None
    ELSE
      LET speciesData == response.answer.species.data
          vernacularResponse == response.answer.vernacular
          mediaResponse == response.answer.media
          englishName ==
              IF vernacularResponse.ok
              THEN Find(vernacularResponse.results,
                        { i \in 1..Len(vernacularResponse.results) :
                            vernacularResponse.results[i].language = "eng" })
              ELSE None
          commonName ==
              IF englishName # None THEN englishName[1].vernacularName
              ELSE Or(speciesData.canonicalName, speciesData.scientificName)
          image ==
              IF mediaResponse.ok
              THEN Find(mediaResponse.results,
                        { i \in 1..Len(mediaResponse.results) :
                            /\ mediaResponse.results[i].type = "StillImage"
                            /\ Truthy(mediaResponse.results[i].identifier) })
              ELSE None
          imageUrl == IF image # None THEN image[1].identifier ELSE Null
          description ==
              IF Len(speciesData.descriptions) > 0
              THEN Or(speciesData.descriptions[1].description,
                      Or(speciesData.descriptions[1].value, Null))
              ELSE Null
      IN  Some([speciesKey |-> speciesKey,
                scientificName |-> Or(speciesData.canonicalName, speciesData.scientificName),
                commonName |-> commonName,
                family |-> speciesData.family,
                genus |-> speciesData.genus,
                imageUrl |-> imageUrl,
                description |-> description])

\* mutant of BatchPromise: a transport failure rejects the lookup's promise
BatchPromiseRejects(speciesKey, response) ==
    IF response.thrown THEN [state |-> "rejected", value |-> None]
    ELSE [state |-> "fulfilled", value |-> getGBIFSpeciesDetails(speciesKey, response)]

\* the promise batch.map makes for one species key, once settled
BatchPromise(speciesKey, response) ==
    [state |-> "fulfilled", value |-> getGBIFSpeciesDetails(speciesKey, response)]

\* mutant of BatchResults: the results are listed as the promises settled
BatchResultsAsSettled(batch, settled, completion) ==
    [n \in 1..Len(batch) |-> settled[completion[n]]]

\* await Promise.all(batchPromises): the results in the order of the promises,
\* given the positions in the order in which they settled
BatchResults(batch, settled, completion) ==
    [k \in 1..Len(batch) |-> settled[k]]

\* batchResults.filter(result => result !== null)
RECURSIVE NonNull(_, _)
NonNull(batchResults, k) ==
    IF k > Len(batchResults) THEN <<>>
    ELSE batchResults[k].value \o NonNull(batchResults, k + 1)

batchSizeDefault == 3

---------------------------------------------------------------------------
(* The tree_species table                                                  *)

\* The table is the sequence of its rows in the order of their insertion: it
\* only grows.  A select has no ORDER BY, so the rows that match come back in
\* an order that the database chooses.

\* where city = $1 and state = $2
AtLocation(rows, city, state) ==
    SelectSeq(rows, LAMBDA r : r.city = city /\ r.state = state)

\* what the select may return
getTreeSpeciesByLocation(rows, city, state) ==
    PermutationsOf(AtLocation(rows, city, state))

\* What the select may return as its first row: <<row>>, or <<>> for undefined
getTreeSpeciesByExternalId(rows, externalId) ==
    IF \E i \in 1..Len(rows) : rows[i].externalId = externalId
    THEN { Some(rows[i]) : i \in { j \in 1..Len(rows) : rows[j].externalId = externalId } }
    ELSE { None }

\* the row as stored, with the id the table generates
createTreeSpecies(insertSpecies, id) ==
    [id |-> id,
     commonName |-> insertSpecies.commonName,
     scientificName |-> insertSpecies.scientificName,
     imageUrl |-> insertSpecies.imageUrl,
     habitatDescription |-> insertSpecies.habitatDescription,
     maxHeight |-> insertSpecies.maxHeight,
     maxAge |-> insertSpecies.maxAge,
     city |-> insertSpecies.city,
     state |-> insertSpecies.state,
     externalId |-> insertSpecies.externalId]

---------------------------------------------------------------------------
(* The search handler: POST /api/tree-species/search                       *)

Procs == {1, 2}

Requests ==
    { [city |-> "Austin", state |-> "TX"],
      [city |-> "Salem", state |-> "TX"],
      [city |-> "Test City", state |-> "TX"],
      [city |-> "", state |-> "TX"] }

MaxSearches == 2

NoCalls ==
    [location |-> 0, geocoder |-> 0, occurrence |-> 0, detail |-> <<>>,
     externalId |-> <<>>, insert |-> 0, delay |-> 0]

IdleProc ==
    [pc |-> "idle", city |-> "", state |-> "", dbAtStart |-> <<>>,
     geocoder |-> None, coords |-> None, query |-> None, data |-> None,
     sortedSpecies |-> <<>>, batchSize |-> 0, i |-> 0, batch |-> <<>>,
     settled |-> <<>>, completion |-> <<>>, outcomes |-> <<>>, results |-> <<>>,
     idx |-> 0, insertSpecies |-> None, treeSpecies |-> <<>>,
     calls |-> NoCalls, error |-> "", response |-> None]

HandlerIdle ==
    /\ db = <<>>
    /\ nextId = 0
    /\ searches = 0
    /\ proc = [p \in Procs |-> IdleProc]
    /\ prev = <<>>

Location(city, state) == city \o ", " \o state

Success(s, species) ==
    [status |-> 200,
     body |-> [species |-> species, location |-> Location(s.city, s.state),
               count |-> Len(species)]]

\* (the list of schema errors in the body is left out)
ValidationFailure ==
    [status |-> 400, body |-> [message |-> "Invalid search parameters"]]

ServiceFailure ==
    [status |-> 500,
     body |-> [message |-> "Failed to fetch tree species data. Please try again later."]]

Respond(s, response) == [s EXCEPT !.pc = "done", !.response = Some(response)]

\* mutant of Catch: an error that is not a schema error is answered with an
\* empty result
CatchAnswersEmpty(s, error) ==
    [Respond(s, IF error = "zod" THEN ValidationFailure ELSE Success(s, <<>>))
        EXCEPT !.error = error]

\* the catch block
Catch(s, error) ==
    [Respond(s, IF error = "zod" THEN ValidationFailure ELSE ServiceFailure)
        EXCEPT !.error = error]

\* mutant of CacheHit: a single cached record does not count as a hit
CacheHitMoreThanOne(cachedResults) == Len(cachedResults) > 1

CacheHit(cachedResults) == Len(cachedResults) > 0

\* mutant of DelayNeeded: a pause follows every batch that ends at or before
\* the last key
DelayNeededAtEnd(i, batchSize, length) == i + batchSize <= length

\* if (i + batchSize < speciesKeys.length)
DelayNeeded(i, batchSize, length) == i + batchSize < length

\* mutant of LaunchBatch: every key from index i on is looked up at once
LaunchBatchAll(s, i) ==
    LET batch == SubSeq(s.sortedSpecies, i + 1, Len(s.sortedSpecies))
    IN  [s EXCEPT !.pc = "batch", !.i = i, !.batch = batch, !.settled = <<>>,
                  !.completion = <<>>,
                  !.calls.detail = @ \o batch]

\* processTaxaBatch: the lookups of the batch that starts at index i begin
LaunchBatch(s, i) ==
    LET batch == SubSeq(s.sortedSpecies, i + 1, Min(i + s.batchSize, Len(s.sortedSpecies)))
    IN  [s EXCEPT !.pc = "batch", !.i = i, !.batch = batch, !.settled = <<>>,
                  !.completion = <<>>,
                  !.calls.detail = @ \o batch]

\* mutant of Skipped: the classifier is not applied to the enriched record
SkippedNoSecondPass(species) == ~Truthy(species.scientificName)

\* the two tests at the head of the resolve loop
Skipped(species) ==
    \/ ~Truthy(species.scientificName)
    \/ ~isLikelyTree(species.scientificName, species.family, species.commonName)

RECURSIVE NextResolvable(_, _)
NextResolvable(detailedSpecies, j) ==
    IF j > Len(detailedSpecies) THEN j
    ELSE IF Skipped(detailedSpecies[j]) THEN NextResolvable(detailedSpecies, j + 1)
    ELSE j

\* mutant of ResolveFrom: a search that created no record ends in the catch
\* block
ResolveFromEmptyFails(s, j) ==
    LET n == NextResolvable(s.results, j)
    IN  IF n > Len(s.results)
        THEN IF Len(s.treeSpecies) = 0
             THEN Catch([s EXCEPT !.idx = n], "empty")
             ELSE Respond([s EXCEPT !.idx = n], Success(s, s.treeSpecies))
        ELSE [s EXCEPT !.pc = "existing", !.idx = n,
                       !.calls.externalId = Append(@, ToString(s.results[n].speciesKey))]

\* The resolve loop runs from detailedSpecies[j] to its next store read, or
\* to the response when nothing is left
ResolveFrom(s, j) ==
    LET n == NextResolvable(s.results, j)
    IN  IF n > Len(s.results)
        THEN Respond([s EXCEPT !.idx = n], Success(s, s.treeSpecies))
        ELSE [s EXCEPT !.pc = "existing", !.idx = n,
                       !.calls.externalId = Append(@, ToString(s.results[n].speciesKey))]

HabitatTemplate(city, state) ==
    "Native tree species found in the " \o city \o ", " \o state
    \o " region. This species is naturally adapted to local climate conditions and provides important ecosystem services."

\* mutant of ClonePayload: the clone keeps the location of the existing record
ClonePayloadKeepsLocation(existing, city, state) ==
    [commonName |-> existing.commonName,
     scientificName |-> existing.scientificName,
     imageUrl |-> existing.imageUrl,
     habitatDescription |-> existing.habitatDescription,
     maxHeight |-> existing.maxHeight,
     maxAge |-> existing.maxAge,
     city |-> existing.city,
     state |-> existing.state,
     externalId |-> existing.externalId]

\* mutant of ClonePayload: the image is not taken over
ClonePayloadWithoutImage(existing, city, state) ==
    [commonName |-> existing.commonName,
     scientificName |-> existing.scientificName,
     imageUrl |-> Null,
     habitatDescription |-> existing.habitatDescription,
     maxHeight |-> existing.maxHeight,
     maxAge |-> existing.maxAge,
     city |-> city,
     state |-> state,
     externalId |-> existing.externalId]

\* mutant of ClonePayload: the habitat text is derived again for the new location
ClonePayloadRederived(existing, city, state) ==
    [commonName |-> existing.commonName,
     scientificName |-> existing.scientificName,
     imageUrl |-> existing.imageUrl,
     habitatDescription |-> HabitatTemplate(city, state),
     maxHeight |-> existing.maxHeight,
     maxAge |-> existing.maxAge,
     city |-> city,
     state |-> state,
     externalId |-> existing.externalId]

\* the record for this location when the species is already stored
ClonePayload(existing, city, state) ==
    [commonName |-> existing.commonName,
     scientificName |-> existing.scientificName,
     imageUrl |-> existing.imageUrl,
     habitatDescription |-> existing.habitatDescription,
     maxHeight |-> existing.maxHeight,
     maxAge |-> existing.maxAge,
     city |-> city,
     state |-> state,
     externalId |-> existing.externalId]

\* mutant of Truncate: the ellipsis is added from 300 characters on
TruncateFrom300(habitatDescription) ==
    SubSeq(habitatDescription, 1, Min(300, Len(habitatDescription)))
    \o (IF Len(habitatDescription) >= 300 THEN "..." ELSE "")

\* mutant of Truncate: the text is not cut
TruncateWithoutSlice(habitatDescription) ==
    habitatDescription \o (IF Len(habitatDescription) > 300 THEN "..." ELSE "")

\* habitatDescription.slice(0, 300) + (habitatDescription.length > 300 ? "..." : "")
Truncate(habitatDescription) ==
    SubSeq(habitatDescription, 1, Min(300, Len(habitatDescription)))
    \o (IF Len(habitatDescription) > 300 THEN "..." ELSE "")

\* the record of a species that is not stored yet
FreshPayload(species, city, state) ==
    LET habitatDescription == Or(species.description, HabitatTemplate(city, state))
    IN  [commonName |-> Or(species.commonName, species.scientificName),
         scientificName |-> species.scientificName,
         imageUrl |-> species.imageUrl,
         habitatDescription |-> Truncate(habitatDescription),
         maxHeight |-> Null,
         maxAge |-> Null,
         city |-> city,
         state |-> state,
         externalId |-> ToString(species.speciesKey)]

\* processTaxaBatch(sortedSpecies) is called: its loop starts the first batch,
\* or returns at once when there is no key
processTaxaBatch(s) ==
    IF 0 < Len(s.sortedSpecies) THEN LaunchBatch(s, 0) ELSE ResolveFrom(s, 1)

\* The loop of processTaxaBatch after a batch: i += batchSize, then the next
\* batch while i < speciesKeys.length, else the return to the handler
NextBatchOrReturn(s) ==
    IF s.i + s.batchSize < Len(s.sortedSpecies)
    THEN LaunchBatch(s, s.i + s.batchSize)
    ELSE ResolveFrom(s, 1)

\* what a later request can be compared with
Summary(s) ==
    [city |-> s.city, state |-> s.state,
     emptyAtStart |-> Len(AtLocation(s.dbAtStart, s.city, s.state)) = 0,
     response |-> s.response[1]]

\* mutant of Start: a city that the check reports goes on like any other
StartWithoutCityCheck(p, body) ==
    /\ proc[p].pc \in {"idle", "done"}
    /\ searches < MaxSearches
    /\ searches' = searches + 1
    /\ prev' = IF proc[p].pc = "done" THEN Some(Summary(proc[p])) ELSE prev
    /\ LET s == [IdleProc EXCEPT !.city = body.city, !.state = body.state,
                                 !.dbAtStart = db]
       IN  proc' = [proc EXCEPT ![p] =
               IF ~ParseOk(body) THEN Catch(s, "zod")
               ELSE [s EXCEPT !.pc = "cache", !.calls.location = 1]]
    /\ UNCHANGED <<db, nextId, callVars>>

\* The request arrives: schema, city check, then the cache read is issued
Start(p, body) ==
    /\ proc[p].pc \in {"idle", "done"}
    /\ searches < MaxSearches
    /\ searches' = searches + 1
    /\ prev' = IF proc[p].pc = "done" THEN Some(Summary(proc[p])) ELSE prev
    /\ LET s == [IdleProc EXCEPT !.city = body.city, !.state = body.state,
                                 !.dbAtStart = db]
       IN  proc' = [proc EXCEPT ![p] =
               IF ~ParseOk(body) THEN Catch(s, "zod")
               ELSE IF isInvalidCityName(body.city) THEN Respond(s, Success(s, <<>>))
               ELSE [s EXCEPT !.pc = "cache", !.calls.location = 1]]
    /\ UNCHANGED <<db, nextId, callVars>>

\* storage.getTreeSpeciesByLocation returns, or the store fails
CacheRead(p, fails, cachedResults) ==
    /\ proc[p].pc = "cache"
    /\ cachedResults \in getTreeSpeciesByLocation(db, proc[p].city, proc[p].state)
    /\ LET s == proc[p]
       IN  proc' = [proc EXCEPT ![p] =
               IF fails THEN Catch(s, "store")
               ELSE IF CacheHit(cachedResults) THEN Respond(s, Success(s, cachedResults))
               ELSE [s EXCEPT !.pc = "geocode", !.calls.geocoder = @ + 1]]
    /\ UNCHANGED <<db, nextId, searches, prev, callVars>>

\* mutant of GeocodeReturn: the occurrence search asks for the city
GeocodeReturnQueriesCity(p, response) ==
    /\ proc[p].pc = "geocode"
    /\ LET s == [proc[p] EXCEPT !.geocoder = Some(response)]
           coords == geocodeCityState(response)
       IN  proc' = [proc EXCEPT ![p] =
               IF coords = None THEN Respond(s, Success(s, <<>>))
               ELSE [s EXCEPT !.pc = "occurrence", !.coords = coords,
                              !.query = Some([OccurrenceQuery(s.state) EXCEPT
                                                  !.stateProvince = s.city]),
                              !.calls.occurrence = @ + 1]]
    /\ UNCHANGED <<db, nextId, searches, prev, callVars>>

\* geocodeCityState returns: no coordinates end the search with an empty
\* result, coordinates issue the occurrence search
GeocodeReturn(p, response) ==
    /\ proc[p].pc = "geocode"
    /\ LET s == [proc[p] EXCEPT !.geocoder = Some(response)]
           coords == geocodeCityState(response)
       IN  proc' = [proc EXCEPT ![p] =
               IF coords = None THEN Respond(s, Success(s, <<>>))
               ELSE [s EXCEPT !.pc = "occurrence", !.coords = coords,
                              !.query = Some(OccurrenceQuery(s.state)),
                              !.calls.occurrence = @ + 1]]
    /\ UNCHANGED <<db, nextId, searches, prev, callVars>>

\* The occurrence search returns: aggregate, filter, rank, and start the
\* first batch of detail lookups
OccurrenceReturn(p, response) ==
    /\ proc[p].pc = "occurrence"
    /\ LET s == [proc[p] EXCEPT !.data = Some(response)]
           uniqueTreeSpecies == Aggregate(response.results)
           nativeTreeSpecies == NativeFilter(uniqueTreeSpecies)
       IN  proc' = [proc EXCEPT ![p] =
               IF response.thrown \/ ~response.ok THEN Catch(s, "occurrence")
               ELSE IF Len(response.results) = 0 THEN Respond(s, Success(s, <<>>))
               ELSE IF MapSize(nativeTreeSpecies) = 0 THEN Respond(s, Success(s, <<>>))
               ELSE processTaxaBatch(
                        [s EXCEPT !.sortedSpecies = SortedSpecies(nativeTreeSpecies),
                                  !.batchSize = batchSizeDefault])]
    /\ UNCHANGED <<db, nextId, searches, prev, callVars>>

\* One lookup of the current batch settles
LookupReturn(p, k, response) ==
    /\ proc[p].pc = "batch"
    /\ k \in 1..Len(proc[p].batch)
    /\ k \notin DOMAIN proc[p].settled
    /\ LET s == proc[p]
           speciesKey == s.batch[k]
       IN  proc' = [proc EXCEPT ![p] =
               [s EXCEPT !.settled = (k :> BatchPromise(speciesKey, response)) @@ @,
                         !.completion = Append(@, k),
                         !.outcomes = (speciesKey :> response) @@ @]]
    /\ UNCHANGED <<db, nextId, searches, prev, callVars>>

\* Promise.all of the batch settles: keep the non-null details, then pause
\* before the next batch or go on to the resolve loop
BatchJoin(p) ==
    /\ proc[p].pc = "batch"
    /\ DOMAIN proc[p].settled = 1..Len(proc[p].batch)
    /\ LET s == proc[p]
           batchResults == BatchResults(s.batch, s.settled, s.completion)
           t == [s EXCEPT !.results = @ \o NonNull(batchResults, 1)]
       IN  proc' = [proc EXCEPT ![p] =
               IF \E k \in 1..Len(s.batch) : s.settled[k].state = "rejected"
               THEN Catch(s, "enrichment")
               ELSE IF DelayNeeded(s.i, s.batchSize, Len(s.sortedSpecies))
               THEN [t EXCEPT !.pc = "delay", !.calls.delay = @ + 1]
               ELSE NextBatchOrReturn(t)]
    /\ UNCHANGED <<db, nextId, searches, prev, callVars>>

\* The pause between two batches ends: the loop goes on with i += batchSize
Delay(p) ==
    /\ proc[p].pc = "delay"
    /\ proc' = [proc EXCEPT ![p] = NextBatchOrReturn(proc[p])]
    /\ UNCHANGED <<db, nextId, searches, prev, callVars>>

\* storage.getTreeSpeciesByExternalId returns, or the store fails
ExistingRead(p, fails, existing) ==
    /\ proc[p].pc = "existing"
    /\ existing \in getTreeSpeciesByExternalId(
                       db, ToString(proc[p].results[proc[p].idx].speciesKey))
    /\ LET s == proc[p]
           species == s.results[s.idx]
       IN  proc' = [proc EXCEPT ![p] =
               IF fails THEN Catch(s, "store")
               ELSE [s EXCEPT !.pc = "insert",
                              !.insertSpecies =
                                  IF existing # None
                                  THEN Some(ClonePayload(existing[1], s.city, s.state))
                                  ELSE Some(FreshPayload(species, s.city, s.state))]]
    /\ UNCHANGED <<db, nextId, searches, prev, callVars>>

\* storage.createTreeSpecies returns, or the store fails
Insert(p, fails) ==
    /\ proc[p].pc = "insert"
    /\ LET s == proc[p]
           row == createTreeSpecies(s.insertSpecies[1], ToString(nextId + 1))
       IN  IF fails
           THEN /\ proc' = [proc EXCEPT ![p] = Catch(s, "store")]
                /\ UNCHANGED <<db, nextId>>
           ELSE /\ db' = Append(db, row)
                /\ nextId' = nextId + 1
                /\ proc' = [proc EXCEPT ![p] =
                       ResolveFrom([s EXCEPT !.treeSpecies = Append(@, row),
                                             !.insertSpecies = None,
                                             !.calls.insert = @ + 1],
                                   s.idx + 1)]
    /\ UNCHANGED <<searches, prev, callVars>>

\* the steps of a search after its start
Steps(p) ==
    \/ \E fails \in BOOLEAN :
          \E cachedResults \in getTreeSpeciesByLocation(db, proc[p].city, proc[p].state) :
             CacheRead(p, fails, cachedResults)
    \/ \E response \in GeocoderResponses : GeocodeReturn(p, response)
    \/ \E response \in OccurrenceResponses : OccurrenceReturn(p, response)
    \/ \E k \in 1..Len(proc[p].batch) :
          \E response \in DetailResponses(proc[p].batch[k]) : LookupReturn(p, k, response)
    \/ BatchJoin(p)
    \/ Delay(p)
    \/ \E fails \in BOOLEAN :
          \E existing \in IF proc[p].pc = "existing"
                          THEN getTreeSpeciesByExternalId(
                                   db, ToString(proc[p].results[proc[p].idx].speciesKey))
                          ELSE {} :
             ExistingRead(p, fails, existing)
    \/ \E fails \in BOOLEAN : Insert(p, fails)

Handler(p) ==
    \/ \E body \in Requests : Start(p, body)
    \/ Steps(p)

Init ==
    /\ HandlerIdle
    /\ arg = <<>>
    /\ ret = <<>>

\* One request at a time: the next one arrives when the response is out
Next == Handler(1)

Spec == Init /\ [][Next]_vars

---------------------------------------------------------------------------
(* One search with city names of every kind                                *)

CityNames ==
    { "NonExistent Town", "invalidville", "Test City", "FAKE Springs",
      "MiddleOfNowhere", "nowhere Land", "Area 5150", "4th Town", " Austin",
      "Austin!", "Austin, TX", "Route 66", "St. Paul" }

CityRequests == { [city |-> c, state |-> st] : c \in CityNames, st \in {"TX", "Texas"} }

\* the last request that MaxSearches admits, on an empty table
InitCities ==
    /\ db = <<>>
    /\ nextId = 0
    /\ searches = MaxSearches - 1
    /\ proc = [p \in Procs |-> IdleProc]
    /\ prev = <<>>
    /\ arg = <<>>
    /\ ret = <<>>

NextCities ==
    \/ \E body \in CityRequests : Start(1, body)
    \/ Steps(1)

SpecCities == InitCities /\ [][NextCities]_vars

---------------------------------------------------------------------------
(* processTaxaBatch on its own: n species keys, batch size b               *)

MaxKeys == 7
MaxBatchSize == 4

InitBatch ==
    /\ db = <<>>
    /\ nextId = 0
    /\ searches = 0
    /\ prev = <<>>
    /\ arg = <<>>
    /\ ret = <<>>
    /\ \E n \in 0..MaxKeys, b \in 1..MaxBatchSize :
          proc = [p \in Procs |->
                    IF p = 1
                    THEN processTaxaBatch([IdleProc EXCEPT !.city = "Austin", !.state = "TX",
                                                           !.sortedSpecies = [k \in 1..n |-> k],
                                                           !.batchSize = b])
                    ELSE IdleProc]

NextBatch ==
    \/ \E k \in 1..Len(proc[1].batch) :
          \E response \in DetailResponses(proc[1].batch[k]) : LookupReturn(1, k, response)
    \/ BatchJoin(1)
    \/ Delay(1)

SpecBatch == InitBatch /\ [][NextBatch]_vars

---------------------------------------------------------------------------
(* One search from the request to the response, on occurrence pages with   *)
(* up to MaxNative native trees                                            *)

MaxNative == 16

\* n occurrences of the same taxon label, with species keys from first on
RECURSIVE OccurrencesFrom(_, _, _, _, _, _)
OccurrencesFrom(first, n, sci, fam, vern, means) ==
    IF n = 0 THEN <<>>
    ELSE <<Occurrence(first, sci, fam, vern, means)>>
         \o OccurrencesFrom(first + 1, n - 1, sci, fam, vern, means)

\* A page of n + 2 occurrences: a bramble, an introduced mulberry and n
\* native oaks (species keys 11 .. 10 + n), one occurrence each
Page(n) ==
    OccurrencesFrom(51, 1, "Rubus armeniacus", "Rosaceae", "Himalayan Blackberry", Undefined)
    \o OccurrencesFrom(41, 1, "Morus alba", "Moraceae", "White Mulberry", "INTRODUCED")
    \o OccurrencesFrom(11, n, "Quercus rubra", "Fagaceae", "Red Oak", "NATIVE")

\* Twenty occurrences: eight brambles, four introduced mulberry taxa and
\* eight native oaks
PageOfTwenty ==
    OccurrencesFrom(51, 8, "Rubus armeniacus", "Rosaceae", "Himalayan Blackberry", Undefined)
    \o OccurrencesFrom(41, 4, "Morus alba", "Moraceae", "White Mulberry", "INTRODUCED")
    \o OccurrencesFrom(11, 8, "Quercus rubra", "Fagaceae", "Red Oak", "NATIVE")

EndToEndPages ==
    { [thrown |-> FALSE, ok |-> TRUE, results |-> Page(n)] : n \in 0..MaxNative }
    \cup { [thrown |-> FALSE, ok |-> TRUE, results |-> r] :
              r \in {ResultsSmall, ResultsMixed, PageOfTwenty} }

\* the species keys whose lookup may fail in SpecEndToEnd
Flaky == {1, 3, 8, 11, 14}

EndToEndResponses(speciesKey) ==
    IF speciesKey \in Flaky THEN DetailResponses(speciesKey)
    ELSE { [thrown |-> FALSE, answer |-> DetailAnswer(speciesKey)] }

InitEndToEnd ==
    /\ db = <<>>
    /\ nextId = 0
    /\ searches = MaxSearches - 1
    /\ proc = [p \in Procs |-> IdleProc]
    /\ prev = <<>>
    /\ arg = <<>>
    /\ ret = <<>>

NextEndToEnd ==
    \/ Start(1, [city |-> "Austin", state |-> "TX"])
    \/ \E fails \in BOOLEAN :
          \E cachedResults \in IF proc[1].pc = "cache"
                               THEN getTreeSpeciesByLocation(db, proc[1].city, proc[1].state)
                               ELSE {} :
             CacheRead(1, fails, cachedResults)
    \/ \E response \in GeocoderResponses : GeocodeReturn(1, response)
    \/ \E response \in EndToEndPages : OccurrenceReturn(1, response)
    \/ \E k \in 1..Len(proc[1].batch) :
          \E response \in EndToEndResponses(proc[1].batch[k]) : LookupReturn(1, k, response)
    \/ BatchJoin(1)
    \/ Delay(1)
    \/ \E fails \in BOOLEAN :
          \E existing \in IF proc[1].pc = "existing"
                          THEN getTreeSpeciesByExternalId(
                                   db, ToString(proc[1].results[proc[1].idx].speciesKey))
                          ELSE {} :
             ExistingRead(1, fails, existing)
    \/ \E fails \in BOOLEAN : Insert(1, fails)

SpecEndToEnd == InitEndToEnd /\ [][NextEndToEnd]_vars

---------------------------------------------------------------------------
(* Two searches at a time: the handler is async, so a second request can   *)
(* run between any two awaits of the first. The upstream services answer   *)
(* and the store does not fail, so that every behaviour of SpecConcurrent  *)
(* is a behaviour of the program.                                          *)

ConcurrentRequests ==
    { [city |-> "Austin", state |-> "TX"],
      [city |-> "Salem", state |-> "TX"] }

ConcurrentPages ==
    { [thrown |-> FALSE, ok |-> TRUE, results |-> r] : r \in {ResultsSmall, ResultsMixed} }

ConcurrentHandler(p) ==
    \/ \E body \in ConcurrentRequests : Start(p, body)
    \/ \E cachedResults \in IF proc[p].pc = "cache"
                             THEN getTreeSpeciesByLocation(db, proc[p].city, proc[p].state)
                             ELSE {} :
          CacheRead(p, FALSE, cachedResults)
    \/ \E response \in { r \in GeocoderResponses : geocodeCityState(r) # None } :
          GeocodeReturn(p, response)
    \/ \E response \in ConcurrentPages : OccurrenceReturn(p, response)
    \/ \E k \in 1..Len(proc[p].batch) :
          LookupReturn(p, k, [thrown |-> FALSE, answer |-> DetailAnswer(proc[p].batch[k])])
    \/ BatchJoin(p)
    \/ Delay(p)
    \/ \E existing \in IF proc[p].pc = "existing"
                        THEN getTreeSpeciesByExternalId(
                                 db, ToString(proc[p].results[proc[p].idx].speciesKey))
                        ELSE {} :
          ExistingRead(p, FALSE, existing)
    \/ Insert(p, FALSE)

NextConcurrent == \E p \in Procs : ConcurrentHandler(p)

SpecConcurrent == Init /\ [][NextConcurrent]_vars

---------------------------------------------------------------------------
(* Two searches to compare: process 1 searches Austin, TX; when it is over *)
(* process 2 searches another city. The geocoder finds each city at one of *)
(* two places.                                                             *)

PairRequests ==
    { [city |-> "Salem", state |-> "TX"],
      [city |-> "Salem", state |-> "OR"] }

PairGeocoderResponses ==
    { [thrown |-> FALSE, ok |-> TRUE, data |-> <<[lat |-> "30", lon |-> "-97"]>>],
      [thrown |-> FALSE, ok |-> TRUE, data |-> <<[lat |-> "45", lon |-> "-93"]>>] }

PairSteps(p) ==
    \/ \E cachedResults \in IF proc[p].pc = "cache"
                             THEN getTreeSpeciesByLocation(db, proc[p].city, proc[p].state)
                             ELSE {} :
          CacheRead(p, FALSE, cachedResults)
    \/ \E response \in PairGeocoderResponses : GeocodeReturn(p, response)
    \/ \E response \in ConcurrentPages : OccurrenceReturn(p, response)
    \/ \E k \in 1..Len(proc[p].batch) :
          \E response \in EndToEndResponses(proc[p].batch[k]) : LookupReturn(p, k, response)
    \/ BatchJoin(p)
    \/ Delay(p)
    \/ \E existing \in IF proc[p].pc = "existing"
                        THEN getTreeSpeciesByExternalId(
                                 db, ToString(proc[p].results[proc[p].idx].speciesKey))
                        ELSE {} :
          ExistingRead(p, FALSE, existing)
    \/ Insert(p, FALSE)

NextPair ==
    \/ proc[1].pc = "idle" /\ Start(1, [city |-> "Austin", state |-> "TX"])
    \/ /\ proc[1].pc = "done"
       /\ proc[2].pc = "idle"
       /\ \E body \in PairRequests : Start(2, body)
    \/ \E p \in Procs : PairSteps(p)

SpecPair == Init /\ [][NextPair]_vars

---------------------------------------------------------------------------
(* The record of a new species on its own: descriptions of every length    *)

MaxDescription == 305

\* a text of n characters
TextOf(n) == SubSeq(Repeat("abcdefghij", (n \div 10) + 1), 1, n)

Descriptions ==
    { Null } \cup { TextOf(n) : n \in 0..MaxDescription } \cup { TextOf(400) }

\* a city name that the check accepts and that makes the template long
LongCity == Repeat("Villa ", 40) \o "Real"

InitPayload ==
    /\ HandlerIdle
    /\ ret = <<>>
    /\ \E description \in Descriptions, city \in {"Austin", LongCity} :
          arg = [species |-> [speciesKey |-> 1, scientificName |-> "Quercus alba",
                              commonName |-> "White Oak", family |-> "Fagaceae",
                              genus |-> "Quercus", imageUrl |-> Null,
                              description |-> description],
                 city |-> city, state |-> "TX"]

CallFreshPayload ==
    /\ ret = <<>>
    /\ ret' = <<FreshPayload(arg.species, arg.city, arg.state)>>
    /\ UNCHANGED <<arg, handlerVars>>

NextPayload == CallFreshPayload

SpecPayload == InitPayload /\ [][NextPayload]_vars

---------------------------------------------------------------------------
(* Inputs of the classifier                                                *)

ScientificNames ==
    { "Quercus alba", "Prunus serotina Ehrh.", "Rubus armeniacus",
      "Ailanthus altissima (Mill.) Swingle", "Sapindus saponaria", "" }

Families == { Null, "Fagaceae", "Rosaceae", "Simaroubaceae" }

VernacularNames ==
    { Null, "", "Black Cherry", "Himalayan Blackberry", "White Oak",
      "Tree of Heaven", "Bush Cherry", "Beech Fern", "Multiflora Rose",
      "Soapberry", "WHITE ASH" }


InitClassifier ==
    /\ HandlerIdle
    /\ arg \in [scientificName : ScientificNames, family : Families,
                vernacularName : VernacularNames]
    /\ ret = <<>>

CallIsLikelyTree ==
    /\ ret = <<>>
    /\ ret' = <<isLikelyTree(arg.scientificName, arg.family, arg.vernacularName)>>
    /\ UNCHANGED <<arg, handlerVars>>

NextClassifier == CallIsLikelyTree

SpecClassifier == InitClassifier /\ [][NextClassifier]_vars

---------------------------------------------------------------------------
(* Inputs of the aggregator                                                *)

EstablishmentLabels ==
    { "NATIVE", "INTRODUCED", "INVASIVE", "NATURALISED", "MANAGED", "UNCERTAIN", "UNKNOWN" }

Occ(key, sci, fam, vern, means) ==
    [speciesKey |-> key, scientificName |-> sci, family |-> fam,
     vernacularName |-> vern, establishmentMeans |-> means]

OccurrenceUniverse ==
    { Occ(1, "Quercus alba", "Fagaceae", "White Oak", "NATIVE"),
      Occ(1, "Quercus alba L.", Undefined, Undefined, Undefined),
      Occ(1, "Quercus alba", "Fagaceae", "White Oak", "INTRODUCED"),
      Occ(2, "Rubus armeniacus", "Rosaceae", "Himalayan Blackberry", "INTRODUCED"),
      Occ(3, "Prunus serotina", "Rosaceae", "Black Cherry", ""),
      Occ(3, "Prunus serotina", "Rosaceae", "Wild Rose", "NATIVE"),
      Occ(0, "Pinus taeda", "Pinaceae", "Loblolly Pine", "NATIVE"),
      Occ(4, Undefined, "Pinaceae", "Loblolly Pine", "NATIVE") }

MaxOccurrences == 3

InitAggregator ==
    /\ HandlerIdle
    /\ arg \in UNION { [1..n -> OccurrenceUniverse] : n \in 0..MaxOccurrences }
    /\ ret = <<>>

CallAggregate ==
    /\ ret = <<>>
    /\ ret' = <<Aggregate(arg)>>
    /\ UNCHANGED <<arg, handlerVars>>

NextAggregator == CallAggregate

SpecAggregator == InitAggregator /\ [][NextAggregator]_vars

---------------------------------------------------------------------------
(* Inputs of the native-status filter: one aggregate, its histogram drawn   *)
(* bucket by bucket                                                        *)

MaxNativeOrUnknown == 6
MaxIntroduced == 2

FilterNames ==
    { "Quercus alba", "Ailanthus altissima (Mill.) Swingle",
      "Pyrus calleryana", "Ailanthus excelsa Roxb." }

HistogramOrder == <<"NATIVE", "UNKNOWN", "INTRODUCED", "INVASIVE", "NATURALISED">>

RECURSIVE HistogramFrom(_, _, _)
HistogramFrom(m, counts, i) ==
    IF i > Len(HistogramOrder) THEN m
    ELSE HistogramFrom(IF counts[i] > 0 THEN MapSet(m, HistogramOrder[i], counts[i]) ELSE m,
                       counts, i + 1)

AggregateOf(name, counts) ==
    [scientificName |-> name, family |-> Null, vernacularName |-> Null,
     count |-> counts[1] + counts[2] + counts[3] + counts[4] + counts[5],
     establishmentCounts |-> HistogramFrom(EmptyMap, counts, 1)]

InitNative ==
    /\ HandlerIdle
    /\ \E name \in FilterNames,
          n \in 0..MaxNativeOrUnknown, u \in 0..MaxNativeOrUnknown,
          i1 \in 0..MaxIntroduced, i2 \in 0..MaxIntroduced, i3 \in 0..MaxIntroduced :
            /\ n + u + i1 + i2 + i3 >= 1
            /\ arg = MapSet(EmptyMap, 1, AggregateOf(name, <<n, u, i1, i2, i3>>))
    /\ ret = <<>>

CallNativeFilter ==
    /\ ret = <<>>
    /\ ret' = <<NativeFilter(arg)>>
    /\ UNCHANGED <<arg, handlerVars>>

NextNative == CallNativeFilter

SpecNative == InitNative /\ [][NextNative]_vars

---------------------------------------------------------------------------
(* Inputs of the ranking: n native taxa inserted in ascending or descending *)
(* key order, each seen once, then MaxExtra further occurrences            *)

MaxTaxa == 16
MaxExtra == 2

RankedEntry(c) ==
    [scientificName |-> "Quercus alba", family |-> "Fagaceae",
     vernacularName |-> "White Oak", count |-> c]

RECURSIVE RankInputFrom(_, _, _, _)
RankInputFrom(m, order, extra, i) ==
    IF i > Len(order) THEN m
    ELSE RankInputFrom(
             MapSet(m, order[i],
                    RankedEntry(1 + Cardinality({ j \in 1..Len(extra) : extra[j] = order[i] }))),
             order, extra, i + 1)

InitRank ==
    /\ HandlerIdle
    /\ \E n \in 0..MaxTaxa, descending \in BOOLEAN :
          \E extra \in [1..MaxExtra -> 0..n] :
            arg = RankInputFrom(EmptyMap,
                                [i \in 1..n |-> IF descending THEN n + 1 - i ELSE i],
                                extra, 1)
    /\ ret = <<>>

CallSortedSpecies ==
    /\ ret = <<>>
    /\ ret' = <<SortedSpecies(arg)>>
    /\ UNCHANGED <<arg, handlerVars>>

NextRank == CallSortedSpecies

SpecRank == InitRank /\ [][NextRank]_vars

---------------------------------------------------------------------------
(* Properties of the classifier                                            *)

ContainsKeyword(name, keywords) ==
    \E k \in keywords : Includes(ToLowerCase(name), k)

FirstToken(s) ==
    IF \E i \in 1..Len(s) : CharAt(s, i) = " "
    THEN SubSeq(s, 1, (CHOOSE i \in 1..Len(s) :
                          /\ CharAt(s, i) = " "
                          /\ \A j \in 1..(i - 1) : CharAt(s, j) # " ") - 1)
    ELSE s

Rule1(a) ==
    /\ Truthy(a.vernacularName)
    /\ ContainsKeyword(a.vernacularName, exclusionKeywords)
    /\ ~ContainsKeyword(a.vernacularName, treeExceptions)
Rule2(a) == a.family \in TREE_FAMILIES
Rule3(a) == Truthy(a.vernacularName) /\ ContainsKeyword(a.vernacularName, treeKeywords)
Rule4(a) == FirstToken(a.scientificName) \in knownTreeGenera

\* C6: isLikelyTree is the five-rule first-match decision list: rule 1
\* rejects before the family, keyword and genus rules are looked at, a name
\* with an exception keyword is never rejected by rule 1, "Black Cherry" is a
\* tree and "Himalayan Blackberry" is not.
C6_ClassifierIsDecisionList ==
    ret # <<>> =>
        /\ ret[1] = (~Rule1(arg) /\ (Rule2(arg) \/ Rule3(arg) \/ Rule4(arg)))
        /\ (Rule1(arg) => ret[1] = FALSE)
        /\ (arg.vernacularName = "Black Cherry" => ret[1] = TRUE)
        /\ (arg.vernacularName = "Himalayan Blackberry" => ret[1] = FALSE)

\* C6 witness: an exclusion keyword next to an exception keyword is not
\* rejected, although neither the family nor the genus is a tree's
C6_Witness ==
    /\ ret = <<TRUE>>
    /\ arg.vernacularName = "Bush Cherry"
    /\ arg.family = "Simaroubaceae"
    /\ arg.scientificName = "Rubus armeniacus"

---------------------------------------------------------------------------
(* Properties of the aggregator                                            *)

SameAggregate(a, b) ==
    /\ a.scientificName = b.scientificName
    /\ a.family = b.family
    /\ a.vernacularName = b.vernacularName
    /\ a.count = b.count
    /\ \A l \in EstablishmentLabels :
          MapGetOr0(a.establishmentCounts, l) = MapGetOr0(b.establishmentCounts, l)

SameAggregates(m1, m2) ==
    /\ DOMAIN m1.val = DOMAIN m2.val
    /\ \A k \in DOMAIN m1.val : SameAggregate(m1.val[k], m2.val[k])

\* C7: the aggregator's output (keys, names, family, count, histogram) is the
\* same for every permutation of the occurrence list.
C7_AggregatorPermutationInvariant ==
    ret # <<>> => \A q \in PermutationsOf(arg) : SameAggregates(Aggregate(q), ret[1])

Qualifies(o) ==
    /\ o.speciesKey # 0
    /\ Truthy(o.scientificName)
    /\ isLikelyTree(o.scientificName, o.family, o.vernacularName)

LabelOf(o) == IF Truthy(o.establishmentMeans) THEN o.establishmentMeans ELSE "UNKNOWN"

QualifyingAt(results, k) ==
    { i \in 1..Len(results) : results[i].speciesKey = k /\ Qualifies(results[i]) }

RECURSIVE SumOver(_, _)
SumOver(f, S) ==
    IF S = {} THEN 0
    ELSE LET x == CHOOSE y \in S : TRUE IN f[x] + SumOver(f, S \ {x})

\* C8: every aggregate counts exactly the occurrences of its key that have a
\* scientificName and pass isLikelyTree, each bucket counts those carrying its
\* label (no label: UNKNOWN), so the count is >= 1 and the buckets sum to it;
\* other occurrences contribute to no aggregate.
C8_AggregateCounts ==
    ret # <<>> =>
        LET m == ret[1] IN
        /\ DOMAIN m.val = { arg[i].speciesKey : i \in { j \in 1..Len(arg) : Qualifies(arg[j]) } }
        /\ { m.keys[i] : i \in 1..Len(m.keys) } = DOMAIN m.val
        /\ Len(m.keys) = Cardinality(DOMAIN m.val)
        /\ \A k \in DOMAIN m.val :
              LET e == m.val[k]
                  h == e.establishmentCounts
              IN  /\ e.count = Cardinality(QualifyingAt(arg, k))
                  /\ e.count >= 1
                  /\ DOMAIN h.val \subseteq EstablishmentLabels
                  /\ \A l \in EstablishmentLabels :
                        MapGetOr0(h, l) =
                            Cardinality({ i \in QualifyingAt(arg, k) : LabelOf(arg[i]) = l })
                  /\ SumOver(h.val, DOMAIN h.val) = e.count

\* C8 witness: an aggregate of three occurrences, one of them without a
\* label, beside occurrences that were skipped
C8_Witness ==
    /\ ret # <<>>
    /\ Len(arg) = 3
    /\ 1 \in DOMAIN ret[1].val
    /\ ret[1].val[1].count = 2
    /\ MapGetOr0(ret[1].val[1].establishmentCounts, "UNKNOWN") = 1
    /\ MapGetOr0(ret[1].val[1].establishmentCounts, "NATIVE") = 1
    /\ \E i \in 1..3 : ~Qualifies(arg[i])

---------------------------------------------------------------------------
(* Properties of the native-status filter                                  *)

FirstTwoTokens(s) ==
    LET t == Split(s)
    IN  IF Len(t) >= 2 THEN t[1] \o " " \o t[2] ELSE t[1]

TheAggregate == arg.val[1]
NativeCount == MapGetOr0(TheAggregate.establishmentCounts, "NATIVE")
IntroducedCount ==
    MapGetOr0(TheAggregate.establishmentCounts, "INTRODUCED")
    + MapGetOr0(TheAggregate.establishmentCounts, "INVASIVE")
    + MapGetOr0(TheAggregate.establishmentCounts, "NATURALISED")
Total == TheAggregate.count
Kept == 1 \in DOMAIN ret[1].val
OnBlocklist == FirstTwoTokens(TheAggregate.scientificName) \in INVASIVE_BLOCKLIST

C5_BlocklistOverrides ==
    (ret # <<>> /\ OnBlocklist) => ~Kept

\* C5 witness: a blocklisted name with an authority suffix and only NATIVE
\* occurrences has been evaluated and excluded
C5_Witness ==
    /\ ret # <<>>
    /\ TheAggregate.scientificName = "Ailanthus altissima (Mill.) Swingle"
    /\ NativeCount = Total
    /\ Total = 6
    /\ ~Kept

---------------------------------------------------------------------------
(* Properties of the ranking                                               *)

CountOf(k) == arg.val[k].count

\* C9: the selected key sequence has length min(15, number of aggregates),
\* has no key twice, is ordered by non-increasing count, and no aggregate
\* left out has a larger count than a selected one.
C9_RankingSelection ==
    ret # <<>> =>
        LET sel == ret[1]
            selected == { sel[i] : i \in 1..Len(sel) }
        IN  /\ Len(sel) = Min(15, MapSize(arg))
            /\ selected \subseteq DOMAIN arg.val
            /\ Cardinality(selected) = Len(sel)
            /\ \A i, j \in 1..Len(sel) : i < j => CountOf(sel[i]) >= CountOf(sel[j])
            /\ \A k \in (DOMAIN arg.val) \ selected :
                  \A s \in selected : CountOf(k) <= CountOf(s)

\* C9 witness: sixteen aggregates are cut to fifteen, and the one inserted
\* last leads because it has the largest count
C9_Witness ==
    /\ ret # <<>>
    /\ MapSize(arg) = 16
    /\ Len(ret[1]) = 15
    /\ ret[1][1] = arg.keys[16]
    /\ CountOf(arg.keys[16]) = 3

---------------------------------------------------------------------------
(* Properties of the search handler                                        *)

\* the single request thread of Spec
Current == proc[1]

ExternalIds(rows) == [i \in 1..Len(rows) |-> rows[i].externalId]

SeqToSet(seq) == { seq[i] : i \in 1..Len(seq) }

\* The search in progress follows an identical search that began with no
\* stored record for its location and answered with at least one species
FollowsPopulatingSearch ==
    /\ prev # None
    /\ Current.pc # "idle"
    /\ prev[1].emptyAtStart
    /\ prev[1].response.status = 200
    /\ prev[1].response.body.count > 0
    /\ Current.city = prev[1].city
    /\ Current.state = prev[1].state

\* the search in progress has made no outbound call and no insert
PureRead ==
    /\ Current.calls.geocoder = 0
    /\ Current.calls.occurrence = 0
    /\ Current.calls.detail = <<>>
    /\ Current.calls.externalId = <<>>
    /\ Current.calls.insert = 0
    /\ db = Current.dbAtStart

\* C1: a search that follows an identical search which started with no stored
\* record for the location and returned count > 0 issues no geocoder,
\* occurrence-source or detail-source call and no store insert, and (when the
\* store answers its one read) returns the same records in the same order as
\* the first search.
C1_CacheIdempotence ==
    FollowsPopulatingSearch =>
        /\ PureRead
        /\ (Current.pc = "done" /\ Current.error # "store") =>
              /\ Current.response[1].status = 200
              /\ Current.response[1].body.species = prev[1].response.body.species
              /\ Current.response[1].body.count = prev[1].response.body.count

\* C2: starting from an empty store, with searches run one at a time, the
\* store never holds two records with the same externalId and the same
\* (city, state).
C2_NoDuplicatePerLocation ==
    \A i, j \in 1..Len(db) :
        (/\ db[i].externalId = db[j].externalId
         /\ db[i].city = db[j].city
         /\ db[i].state = db[j].state) => i = j

\* A search failed after it had stored part of its species, and the next
\* search for the same location has finished
C2_Witness ==
    /\ prev # None
    /\ prev[1].response.status = 500
    /\ Current.pc = "done"
    /\ Current.city = prev[1].city
    /\ Current.state = prev[1].state
    /\ Len(Current.dbAtStart) > 0
    /\ Current.response[1].status = 200
    /\ Current.response[1].body.count > 0

StoredAtStart(s, speciesKey) ==
    \E i \in 1..Len(s.dbAtStart) : s.dbAtStart[i].externalId = ToString(speciesKey)

Occurrences(seq, x) == Cardinality({ i \in 1..Len(seq) : seq[i] = x })

Descriptive(r) ==
    <<r.commonName, r.scientificName, r.imageUrl, r.habitatDescription,
      r.maxHeight, r.maxAge, r.externalId>>

LookupFailed(response) ==
    \/ response.thrown
    \/ ~response.answer.species.ok
    \/ ~Truthy(Or(response.answer.species.data.canonicalName,
                  response.answer.species.data.scientificName))

\* the enriched record passes the second classifier pass
PassesSecondPass(speciesKey, response) ==
    LET details == getGBIFSpeciesDetails(speciesKey, response)[1]
    IN  isLikelyTree(details.scientificName, details.family, details.commonName)

\* The ranked keys from position k on that did not fail and pass the second
\* classifier pass, as external ids
RECURSIVE ExpectedFrom(_, _, _)
ExpectedFrom(sortedSpecies, outcomes, k) ==
    IF k > Len(sortedSpecies) THEN <<>>
    ELSE LET speciesKey == sortedSpecies[k]
             rest == ExpectedFrom(sortedSpecies, outcomes, k + 1)
         IN  IF ~LookupFailed(outcomes[speciesKey])
                /\ PassesSecondPass(speciesKey, outcomes[speciesKey])
             THEN <<ToString(speciesKey)>> \o rest
             ELSE rest

FailedKeys(s) ==
    { speciesKey \in DOMAIN s.outcomes : LookupFailed(s.outcomes[speciesKey]) }

\* C10: whatever subset F of the ranked keys fails in its detail lookup, the
\* enrichment is never the cause of a failure response, every ranked key is
\* still looked up, and (unless the store fails) the search ends with a
\* success response whose species are exactly the ranked keys outside F that
\* pass the second classifier pass, in rank order.
C10_EnrichmentFailuresIndependent ==
    /\ Current.error # "enrichment"
    /\ (Current.pc = "done" /\ Current.sortedSpecies # <<>> /\ Current.error # "store") =>
          /\ Current.calls.detail = Current.sortedSpecies
          /\ DOMAIN Current.outcomes = SeqToSet(Current.sortedSpecies)
          /\ Current.response[1].status = 200
          /\ ExternalIds(Current.response[1].body.species)
                = ExpectedFrom(Current.sortedSpecies, Current.outcomes, 1)
          /\ Current.response[1].body.count
                = Len(ExpectedFrom(Current.sortedSpecies, Current.outcomes, 1))

\* A transport error in the first batch, and a species of the second batch in
\* the result
C10_Witness ==
    /\ Current.pc = "done"
    /\ Current.error = ""
    /\ Len(Current.sortedSpecies) > batchSizeDefault
    /\ \E k \in 1..batchSizeDefault : Current.outcomes[Current.sortedSpecies[k]].thrown
    /\ FailedKeys(Current) # {}
    /\ ToString(Current.sortedSpecies[Len(Current.sortedSpecies)])
          \in SeqToSet(ExternalIds(Current.response[1].body.species))

---------------------------------------------------------------------------
(* Properties of processTaxaBatch                                          *)

\* ceil(n / b)
CeilDiv(n, b) == (n + b - 1) \div b

\* processTaxaBatch has returned
Returned(s) == s.pc \notin {"batch", "delay"}

\* C11: with n keys and batch size b >= 1, a pause happens only between two
\* consecutive batches: it starts when every lookup issued so far has settled
\* and keys are left for a next batch, the number of pauses before the batch
\* at index i is i / b, and when processTaxaBatch returns there were exactly
\* ceil(n / b) - 1 pauses for n > 0 and none for n = 0.
C11_DelayOnlyBetweenBatches ==
    LET s == Current
        n == Len(s.sortedSpecies)
        b == s.batchSize
    IN  /\ s.pc = "delay" =>
              /\ SeqToSet(s.calls.detail) = DOMAIN s.outcomes
              /\ Len(s.calls.detail) = s.i + b
              /\ s.i + b < n
              /\ s.calls.delay = (s.i \div b) + 1
        /\ s.pc = "batch" =>
              /\ s.calls.delay = s.i \div b
              /\ s.i < n
        /\ Returned(s) =>
              /\ s.calls.delay = IF n > 0 THEN CeilDiv(n, b) - 1 ELSE 0
              /\ n <= b => s.calls.delay = 0
              /\ s.calls.detail = s.sortedSpecies

\* seven keys in batches of three, of which the last holds one key: two pauses
C11_Witness ==
    /\ Returned(Current)
    /\ Len(Current.sortedSpecies) = 7
    /\ Current.batchSize = 3
    /\ Current.calls.delay = 2

\* the position of an external id in the ranked key list
RankOf(s, externalId) ==
    CHOOSE k \in 1..Len(s.sortedSpecies) : ToString(s.sortedSpecies[k]) = externalId

\* the external ids are listed by increasing rank
InRankOrder(s, externalIds) ==
    /\ \A a \in 1..Len(externalIds) :
          \E k \in 1..Len(s.sortedSpecies) : ToString(s.sortedSpecies[k]) = externalIds[a]
    /\ \A a, b \in 1..Len(externalIds) :
          a < b => RankOf(s, externalIds[a]) < RankOf(s, externalIds[b])

\* the ranked keys from position k on whose lookup settled with details
RECURSIVE EnrichedFrom(_, _)
EnrichedFrom(s, k) ==
    IF k > Len(s.sortedSpecies) THEN <<>>
    ELSE LET speciesKey == s.sortedSpecies[k]
         IN  (IF /\ speciesKey \in DOMAIN s.outcomes
                 /\ getGBIFSpeciesDetails(speciesKey, s.outcomes[speciesKey]) # None
              THEN <<speciesKey>> ELSE <<>>) \o EnrichedFrom(s, k + 1)

\* C12: in whatever order the lookups of a batch settle, the details that
\* processTaxaBatch returns are those of the surviving keys in rank order, and
\* the records created from them and the species of the response are in rank
\* order too.
C12_RankOrderNotCompletionOrder ==
    LET s == Current
        detailedKeys == [j \in 1..Len(s.results) |-> s.results[j].speciesKey]
    IN  /\ InRankOrder(s, [j \in 1..Len(s.results) |-> ToString(detailedKeys[j])])
        /\ (Returned(s) /\ s.sortedSpecies # <<>>) => detailedKeys = EnrichedFrom(s, 1)
        /\ InRankOrder(s, ExternalIds(s.treeSpecies))
        /\ (s.pc = "done" /\ s.sortedSpecies # <<>> /\ s.error = "") =>
              /\ s.response[1].body.species = s.treeSpecies
              /\ InRankOrder(s, ExternalIds(s.response[1].body.species))

\* Two species of one batch are in the response, and the lookup of the lower
\* ranked one settled first
C12_Witness ==
    LET s == Current
    IN  /\ s.pc = "done"
        /\ s.error = ""
        /\ \E a, b \in 1..Len(s.completion) :
              /\ a < b
              /\ s.completion[a] > s.completion[b]
              /\ \A c \in {a, b} :
                    ToString(s.batch[s.completion[c]])
                        \in SeqToSet(ExternalIds(s.response[1].body.species))

---------------------------------------------------------------------------
(* Properties of the resolve loop                                          *)

\* the rows of the table that the search in progress has added
Inserted(s) == SubSeq(db, Len(s.dbAtStart) + 1, Len(db))

\* the table still begins with the rows it had when the search started
StartRowsKept(s) ==
    /\ Len(s.dbAtStart) <= Len(db)
    /\ SubSeq(db, 1, Len(s.dbAtStart)) = s.dbAtStart

\* C13: when the search creates a record for an enriched taxon whose
\* externalId is already stored for a different (city, state), the new record
\* is persisted and returned, has an id that no earlier record has, has the
\* requested city and state, and has the commonName, scientificName, imageUrl,
\* habitatDescription, maxHeight, maxAge and externalId of the existing record;
\* the existing record stays in the store unchanged.
C13_DedupClone ==
    LET s == Current
    IN  \A n \in 1..Len(s.treeSpecies), i \in 1..Len(s.dbAtStart) :
          LET new == s.treeSpecies[n]
              existing == s.dbAtStart[i]
          IN  (/\ existing.externalId = new.externalId
               /\ <<existing.city, existing.state>> # <<s.city, s.state>>) =>
                 /\ \A j \in 1..Len(s.dbAtStart) : s.dbAtStart[j].id # new.id
                 /\ new.city = s.city
                 /\ new.state = s.state
                 /\ new.commonName = existing.commonName
                 /\ new.scientificName = existing.scientificName
                 /\ new.imageUrl = existing.imageUrl
                 /\ new.habitatDescription = existing.habitatDescription
                 /\ new.maxHeight = existing.maxHeight
                 /\ new.maxAge = existing.maxAge
                 /\ new.externalId = existing.externalId
                 /\ new \in SeqToSet(Inserted(s))
                 /\ db[i] = existing
                 /\ (s.pc = "done" /\ s.error = "") =>
                        new \in SeqToSet(s.response[1].body.species)

\* A species with an image, stored for one city, is in the response of a
\* search for another city
C13_Witness ==
    LET s == Current
    IN  /\ s.pc = "done"
        /\ s.error = ""
        /\ \E n \in 1..Len(s.response[1].body.species), i \in 1..Len(s.dbAtStart) :
              /\ s.response[1].body.species[n].externalId = s.dbAtStart[i].externalId
              /\ s.response[1].body.species[n].city # s.dbAtStart[i].city
              /\ s.response[1].body.species[n].id # s.dbAtStart[i].id
              /\ s.dbAtStart[i].imageUrl # Null
              /\ s.response[1].body.species[n].imageUrl = s.dbAtStart[i].imageUrl

\* the text that the new record's habitat description is made of
RawDescription ==
    IF Truthy(arg.species.description) THEN arg.species.description
    ELSE HabitatTemplate(arg.city, arg.state)

\* C14: on the fresh path, a description or template of length L <= 300 is
\* stored as it is, with no ellipsis, also for L = 300; one of length L > 300
\* is stored as its first 300 characters followed by "...", 303 characters.
C14_DescriptionTruncation ==
    ret # <<>> =>
        LET stored == ret[1].habitatDescription
            L == Len(RawDescription)
        IN  /\ L <= 300 => stored = RawDescription /\ Len(stored) = L
            /\ L > 300 =>
                  /\ Len(stored) = 303
                  /\ SubSeq(stored, 1, 300) = SubSeq(RawDescription, 1, 300)
                  /\ SubSeq(stored, 301, 303) = "..."

\* a description of exactly 300 characters has been stored
C14_Witness ==
    /\ ret # <<>>
    /\ arg.species.description # Null
    /\ Len(arg.species.description) = 300
    /\ Len(ret[1].habitatDescription) = 300

---------------------------------------------------------------------------
(* Properties of the handler's early returns and failures                  *)

\* the request of the search in progress passed the schema and its city is
\* reported by the check
CityReportedInvalid(s) ==
    /\ s.pc # "idle"
    /\ ParseOk([city |-> s.city, state |-> s.state])
    /\ isInvalidCityName(s.city)

EmptySuccess(s) ==
    [status |-> 200,
     body |-> [species |-> <<>>, location |-> s.city \o ", " \o s.state, count |-> 0]]

\* C15: a search whose city the check reports as invalid answers at once with
\* {species: [], location: "<city>, <state>", count: 0}, without a store read,
\* without a geocoder, occurrence or detail call and without a store write.
C15_InvalidCityReturnsEmpty ==
    CityReportedInvalid(Current) =>
        /\ Current.pc = "done"
        /\ Current.response = Some(EmptySuccess(Current))
        /\ Current.error = ""
        /\ Current.calls = NoCalls
        /\ db = Current.dbAtStart

\* a city with a run of three digits got its response
C15_Witness ==
    /\ CityReportedInvalid(Current)
    /\ Current.city = "Area 5150"
    /\ Current.pc = "done"
    /\ Current.response[1].body.location = "Area 5150, TX"

\* the occurrence search of the search in progress failed in transport or
\* came back with a non-success status
OccurrenceFailed(s) ==
    /\ s.data # None
    /\ (s.data[1].thrown \/ ~s.data[1].ok)

\* C16: when the occurrence search fails (transport error or non-success
\* status) the search ends at once with HTTP 500 and the generic retry
\* message, neither a 400 nor a success with an empty list; no detail call is
\* made and the store is unchanged.
C16_OccurrenceFailureIsServiceFailure ==
    OccurrenceFailed(Current) =>
        /\ Current.pc = "done"
        /\ Current.response[1].status = 500
        /\ Current.response[1].status \notin {200, 400}
        /\ Current.response[1].body
              = [message |-> "Failed to fetch tree species data. Please try again later."]
        /\ Current.calls.detail = <<>>
        /\ Current.calls.externalId = <<>>
        /\ Current.calls.insert = 0
        /\ db = Current.dbAtStart

\* The occurrence source answered with a non-success status while the table
\* held records of another location
C16_Witness ==
    /\ OccurrenceFailed(Current)
    /\ ~Current.data[1].thrown
    /\ Current.pc = "done"
    /\ Current.calls.occurrence = 1
    /\ Len(Current.dbAtStart) > 0

\* the geocoder call of the search in progress failed in transport or came
\* back with a non-success status
GeocoderFailed(s) ==
    /\ s.geocoder # None
    /\ (s.geocoder[1].thrown \/ ~s.geocoder[1].ok)

\* C17: when the geocoder call fails with a transport failure or a non-success
\* status, the search ends with a service failure and not with the
\* successful empty result.
C17_GeocoderFailureIsServiceFailure ==
    (GeocoderFailed(Current) /\ Current.pc = "done") =>
        /\ Current.response[1].status = 500
        /\ Current.response # Some(EmptySuccess(Current))

\* the geocoder answered, with no match
GeocoderNotFound(s) ==
    /\ s.geocoder # None
    /\ ~s.geocoder[1].thrown
    /\ s.geocoder[1].ok
    /\ Len(s.geocoder[1].data) = 0

\* the occurrence search answered
OccurrencesOf(s) == s.data[1].results

OccurrenceAnswered(s) ==
    /\ s.data # None
    /\ ~s.data[1].thrown
    /\ s.data[1].ok

NoOccurrence(s) == OccurrenceAnswered(s) /\ Len(OccurrencesOf(s)) = 0

NoTreeClassified(s) ==
    /\ OccurrenceAnswered(s)
    /\ \A k \in 1..Len(OccurrencesOf(s)) : ~Qualifies(OccurrencesOf(s)[k])

NoNativeTaxon(s) ==
    /\ OccurrenceAnswered(s)
    /\ MapSize(NativeFilter(Aggregate(OccurrencesOf(s)))) = 0

\* every lookup of processTaxaBatch has settled and none gave a usable record
NoneEnriched(s) ==
    /\ s.sortedSpecies # <<>>
    /\ Returned(s)
    /\ DOMAIN s.outcomes = SeqToSet(s.sortedSpecies)
    /\ \A speciesKey \in DOMAIN s.outcomes : LookupFailed(s.outcomes[speciesKey])

\* C18: when the geocoder answers not-found, the occurrence source returns no
\* occurrence, no occurrence is tree-classified, no taxon passes the native
\* filter, or no ranked taxon is enriched successfully, the search ends with
\* the success response {species: [], location: "<city>, <state>", count: 0},
\* never with a failure, and the store is unchanged.
C18_ZeroSurvivorsIsSuccess ==
    LET s == Current
    IN  (\/ GeocoderNotFound(s)
         \/ NoOccurrence(s)
         \/ NoTreeClassified(s)
         \/ NoNativeTaxon(s)
         \/ NoneEnriched(s)) =>
            /\ s.pc = "done"
            /\ s.error = ""
            /\ s.response = Some(EmptySuccess(s))
            /\ s.calls.insert = 0
            /\ db = s.dbAtStart

\* four ranked taxa, and not one lookup gave a usable record
C18_Witness ==
    /\ NoneEnriched(Current)
    /\ Len(Current.sortedSpecies) > batchSizeDefault
    /\ Current.pc = "done"
    /\ Current.response[1].body.count = 0

\* the classifier rejects the enriched record
RejectedOnDetail(species) ==
    ~isLikelyTree(species.scientificName, species.family, species.commonName)

\* C19: for every enriched record that isLikelyTree rejects on its
\* (scientificName, family, commonName), the search reads and writes no store
\* record for the taxon and leaves it out of the response, although the taxon
\* was ranked and even if its externalId is already stored; every record the
\* search creates, and so every species of a non-cached response, belongs to
\* an enriched record that isLikelyTree accepts.
C19_SecondClassifierPass ==
    LET s == Current
    IN  /\ \A j \in 1..Len(s.results) :
              RejectedOnDetail(s.results[j]) =>
                LET externalId == ToString(s.results[j].speciesKey)
                IN  /\ s.results[j].speciesKey \in SeqToSet(s.sortedSpecies)
                    /\ externalId \notin SeqToSet(s.calls.externalId)
                    /\ externalId \notin SeqToSet(ExternalIds(Inserted(s)))
                    /\ externalId \notin SeqToSet(ExternalIds(s.treeSpecies))
                    /\ (s.pc = "done" /\ s.error = "") =>
                          externalId \notin SeqToSet(ExternalIds(s.response[1].body.species))
        /\ \A n \in 1..Len(s.treeSpecies) :
              \E j \in 1..Len(s.results) :
                 /\ ToString(s.results[j].speciesKey) = s.treeSpecies[n].externalId
                 /\ ~RejectedOnDetail(s.results[j])
        /\ (s.pc = "done" /\ s.error = "" /\ s.sortedSpecies # <<>>) =>
              s.response[1].body.species = s.treeSpecies

\* A taxon that is already stored for another city is rejected on its
\* enriched common name, while another taxon of the search is recorded
C19_Witness ==
    LET s == Current
    IN  /\ s.pc = "done"
        /\ s.error = ""
        /\ Len(s.response[1].body.species) > 0
        /\ \E j \in 1..Len(s.results) :
              /\ RejectedOnDetail(s.results[j])
              /\ Truthy(s.results[j].scientificName)
              /\ StoredAtStart(s, s.results[j].speciesKey)

\* C20: a step of a search never updates or deletes a stored record, and every
\* record it adds has the city and state of that search's request: the records
\* of other locations are neither changed nor added to.
C20_StoreAppendOnly ==
    [][ /\ Len(db') >= Len(db)
        /\ SubSeq(db', 1, Len(db)) = db
        /\ \A i \in (Len(db) + 1)..Len(db') :
              /\ db'[i].city = Current.city
              /\ db'[i].state = Current.state
              /\ \A j \in 1..Len(db) : db[j].id # db'[i].id ]_vars

\* A search has added records, fresh and cloned, to a table that held the
\* records of another location, which are all still there
C20_Witness ==
    LET s == Current
    IN  /\ s.pc = "done"
        /\ Len(s.dbAtStart) > 0
        /\ Len(Inserted(s)) >= 2
        /\ StartRowsKept(s)
        /\ \A i \in 1..Len(s.dbAtStart) : s.dbAtStart[i].city # s.city
        /\ \E n \in 1..Len(Inserted(s)) :
              Inserted(s)[n].externalId \in SeqToSet(ExternalIds(s.dbAtStart))
        /\ \E n \in 1..Len(Inserted(s)) :
              Inserted(s)[n].externalId \notin SeqToSet(ExternalIds(s.dbAtStart))

---------------------------------------------------------------------------
(* Properties of a whole search                                            *)

\* the taxa of the occurrence page that pass the classifier and the native
\* filter
NativePassing(s) == MapSize(NativeFilter(Aggregate(s.data[1].results)))

\* the lookup of a ranked key succeeded, and its enriched record passes the
\* classifier
Survives(s, speciesKey) ==
    /\ speciesKey \in DOMAIN s.outcomes
    /\ ~LookupFailed(s.outcomes[speciesKey])
    /\ PassesSecondPass(speciesKey, s.outcomes[speciesKey])

Survivors(s) ==
    { k \in 1..Len(s.sortedSpecies) : Survives(s, s.sortedSpecies[k]) }

\* the search went past the cache and the geocoder, got an occurrence page
\* and answered without a failure
CompletedUncached(s) ==
    /\ s.pc = "done"
    /\ s.error = ""
    /\ s.data # None

\* C21: a completed search that was not answered from the cache reports
\* count = Len(species) <= 15; the ranked taxa are the first min(15, n) of
\* the n taxa that pass the classifier and the native filter, count is the
\* number of ranked taxa whose lookup succeeded and whose enriched record
\* passes the classifier, and when all of them do, count = min(15, n).
C21_EndToEndCount ==
    CompletedUncached(Current) =>
        LET body == Current.response[1].body
            n == NativePassing(Current)
        IN  /\ Current.response[1].status = 200
            /\ body.count = Len(body.species)
            /\ body.count <= Limit
            /\ Len(Current.sortedSpecies) = Min(Limit, n)
            /\ body.count = Cardinality(Survivors(Current))
            /\ (Cardinality(Survivors(Current)) = Len(Current.sortedSpecies))
                   => body.count = Min(Limit, n)

\* Sixteen taxa pass both filters, every lookup succeeds, fifteen species
\* are returned
C21_Witness ==
    /\ CompletedUncached(Current)
    /\ NativePassing(Current) = Limit + 1
    /\ Cardinality(Survivors(Current)) = Len(Current.sortedSpecies)
    /\ Current.response[1].body.count = Limit
    /\ Len(db) = Limit

---------------------------------------------------------------------------
(* Ties in the ranking                                                     *)

\* C22: among aggregates of equal count the selected sequence is ordered by
\* taxon key ascending, and a key left out by the cut has no smaller key than
\* a selected one of the same count: the selection depends on the set of
\* aggregates only, not on the order in which the taxa were first seen.
C22_TiesByTaxonKey ==
    ret # <<>> =>
        LET sel == ret[1]
            selected == { sel[i] : i \in 1..Len(sel) }
        IN  /\ \A i, j \in 1..Len(sel) :
                  (i < j /\ CountOf(sel[i]) = CountOf(sel[j])) => sel[i] < sel[j]
            /\ \A k \in (DOMAIN arg.val) \ selected :
                  \A s \in selected : CountOf(k) = CountOf(s) => s < k

---------------------------------------------------------------------------
(* Properties of the stored records                                        *)

\* C23 as stated: every stored record, created from a lookup or cloned from
\* a stored record, has a habitatDescription of at most 300 characters.
C23_DescriptionAtMost300 ==
    \A n \in 1..Len(db) : Len(db[n].habitatDescription) <= 300

\* C23, amended: every stored record, created from a lookup or cloned, has a
\* habitatDescription of at most 303 characters; one longer than 300
\* characters has exactly 303 and ends in "...".
C23_DescriptionAtMost303 ==
    \A n \in 1..Len(db) :
        LET stored == db[n].habitatDescription
        IN  /\ Len(stored) <= 303
            /\ Len(stored) > 300 =>
                  /\ Len(stored) = 303
                  /\ SubSeq(stored, 301, 303) = "..."

\* A record with a cut description of 303 characters and its clone at
\* another location are stored
C23_Witness ==
    \E n, k \in 1..Len(db) :
        /\ n < k
        /\ db[n].externalId = db[k].externalId
        /\ db[n].city # db[k].city
        /\ Len(db[n].habitatDescription) = 303
        /\ Len(db[k].habitatDescription) = 303
        /\ Len(LongDescription) > 303

---------------------------------------------------------------------------
(* Parallelism of the detail lookups                                       *)

\* the positions, in the order of their start, of the lookups that have
\* started and not settled
InFlight(s) ==
    { k \in 1..Len(s.calls.detail) : s.calls.detail[k] \notin DOMAIN s.outcomes }

\* the number of the batch that holds the k-th key
BatchOf(s, k) == (k - 1) \div s.batchSize

\* C24: at every moment of processTaxaBatch at most batchSize lookups are in
\* flight, all of them of the same batch, and a lookup of a later batch has
\* started only when every lookup of the earlier batches has settled.
C24_BoundedParallelism ==
    LET s == Current
    IN  /\ Cardinality(InFlight(s)) <= s.batchSize
        /\ \A k, m \in InFlight(s) : BatchOf(s, k) = BatchOf(s, m)
        /\ \A k, m \in 1..Len(s.calls.detail) :
              BatchOf(s, k) < BatchOf(s, m) => k \notin InFlight(s)
        /\ \A k \in 1..Len(s.calls.detail) : s.calls.detail[k] = s.sortedSpecies[k]

\* the three lookups of the second batch are in flight, with the default
\* batch size
C24_Witness ==
    /\ Current.pc = "batch"
    /\ Current.batchSize = batchSizeDefault
    /\ Current.i = batchSizeDefault
    /\ Cardinality(InFlight(Current)) = batchSizeDefault
    /\ Len(Current.sortedSpecies) > 2 * batchSizeDefault

---------------------------------------------------------------------------
(* The band of 20% to 50% introduced occurrences                           *)

\* the introduced share of the aggregate lies between 20% and 50%
IntroducedInBand ==
    /\ 5 * IntroducedCount >= Total
    /\ 2 * IntroducedCount <= Total

---------------------------------------------------------------------------
(* Properties of concurrent searches                                       *)

\* the search of process p is over, was for (city, state), and its cache
\* read found no stored record
EndedUncached(p, city, state) ==
    /\ proc[p].pc = "done"
    /\ proc[p].city = city
    /\ proc[p].state = state
    /\ proc[p].calls.geocoder = 1

\* C26: two concurrent searches for the same location, each of which passed
\* the cache check before the other stored a record, do not leave two stored
\* records with the same externalId and the same (city, state).
C26_NoDuplicateUnderRace ==
    \A body \in ConcurrentRequests :
        (EndedUncached(1, body.city, body.state) /\ EndedUncached(2, body.city, body.state)) =>
            \A n, k \in 1..Len(db) :
                (/\ n # k
                 /\ db[n].externalId = db[k].externalId
                 /\ db[n].city = body.city /\ db[n].state = body.state)
                => (db[k].city # body.city \/ db[k].state # body.state)

\* C27: in every reachable state, also with interleaved searches for
\* different locations, any two stored records with the same externalId have
\* the same commonName, scientificName, imageUrl and habitatDescription.
C27_SameIdentitySameText ==
    \A n, k \in 1..Len(db) :
        db[n].externalId = db[k].externalId =>
            /\ db[n].commonName = db[k].commonName
            /\ db[n].scientificName = db[k].scientificName
            /\ db[n].imageUrl = db[k].imageUrl
            /\ db[n].habitatDescription = db[k].habitatDescription

---------------------------------------------------------------------------
(* Failures and the stored records                                         *)

\* the search ended with a failure response
EndedInFailure(s) ==
    /\ s.pc = "done"
    /\ s.response[1].status # 200

\* C28: a search that ends with a failure leaves the table as it was when the
\* search started, also when a store call of the resolve loop fails after
\* records of this search were inserted; so a search that follows a failed
\* search for the same location, which had no record, is not answered from
\* the cache.
C28_FailureLeavesStoreUnchanged ==
    /\ EndedInFailure(Current) => db = Current.dbAtStart
    /\ (/\ prev # None
        /\ prev[1].response.status # 200
        /\ prev[1].emptyAtStart
        /\ Current.pc = "done"
        /\ Current.city = prev[1].city
        /\ Current.state = prev[1].state
        /\ Current.response[1].status = 200
        /\ Current.response[1].body.count > 0)
       => Current.calls.geocoder = 1

---------------------------------------------------------------------------
(* The template text of stored records                                     *)

\* the text is the template of some request's location, as it is stored
IsTemplateText(text) ==
    \E body \in Requests : text = Truncate(HabitatTemplate(body.city, body.state))

\* C30: every stored record whose habitatDescription is the synthesized
\* template names the record's own city and state in that text, also when
\* the record is a clone of a record of another location.
C30_TemplateNamesOwnLocation ==
    \A n \in 1..Len(db) :
        IsTemplateText(db[n].habitatDescription)
        => db[n].habitatDescription = Truncate(HabitatTemplate(db[n].city, db[n].state))

---------------------------------------------------------------------------
(* What a search depends on                                                *)

\* the two searches were for different cities of the same state, both went
\* past the cache and the geocoder, and both got the same occurrence page and
\* the same answer to every detail lookup
SameStateSameUpstream(a, b) ==
    /\ CompletedUncached(a)
    /\ CompletedUncached(b)
    /\ a.city # b.city
    /\ a.state = b.state
    /\ a.data = b.data
    /\ a.outcomes = b.outcomes

=============================================================================
